---------------------------- MODULE Spec2Model ----------------------------
(***************************************************************************)
(* A model of the cleaning engine: the rule model (rules.py), the column   *)
(* resolver and the operation registry (operations.py), the contract       *)
(* validator (validation.py), the store (storage.py) and the pipeline      *)
(* executor (engine.py).                                                   *)
(*                                                                         *)
(* Strings (column names, cell values, regex patterns) are sequences of    *)
(* one-character strings, so that trimming, case mapping, parsing and      *)
(* matching are computed rather than assumed.                              *)
(***************************************************************************)
EXTENDS Integers, Sequences, FiniteSets, TLC

(***************************************************************************)
(* Bounds of the model.                                                    *)
(***************************************************************************)
\* longest explicit name list given to a ColumnSelector
MaxSelCols == 2
\* widest dataset (number of columns) given to select_columns
MaxDfCols == 3
\* longest rule list given to RuleConfig in the construction specification
MaxRules == 3

(***************************************************************************)
(* Python's Optional[T]: None, or a value.                                 *)
(***************************************************************************)
None == [some |-> FALSE, v |-> <<>>]
Some(x) == [some |-> TRUE, v |-> x]

\* bool(x) of an Optional[List] / Optional[str]: None and the empty
\* list / empty string are both falsy.
Truthy(opt) == opt.some /\ opt.v # <<>>

\* the elements of a sequence
Range(s) == {s[i] : i \in 1..Len(s)}

\* all sequences over S of length at most n
SeqsUpTo(S, n) == UNION {[1..k -> S] : k \in 0..n}

\* the sequences without repeated elements
NoDup(s) == \A i, j \in 1..Len(s) : i # j => s[i] # s[j]

(***************************************************************************)
(* Column names used by the model.                                         *)
(***************************************************************************)
col_1 == <<"c", "o", "l", "_", "1">>
col_1x == <<"c", "o", "l", "_", "1", "x">>
xcol_1 == <<"x", "c", "o", "l", "_", "1">>
other == <<"o", "t", "h", "e", "r">>
Names == {col_1, col_1x, xcol_1, other}

Digits == {"0", "1", "2", "3", "4", "5", "6", "7", "8", "9"}

(***************************************************************************)
(* Regular expressions: a pattern is a sequence of tokens, each a          *)
(* character class with a quantifier.  r"col_\d+" is PatColDigits.         *)
(***************************************************************************)
Lit(c) == [cls |-> "lit", ch |-> c, plus |-> FALSE]
DigitPlus == [cls |-> "digit", ch |-> "", plus |-> TRUE]
Digit1 == [cls |-> "digit", ch |-> "", plus |-> FALSE]

\* r"col_\d+"
PatColDigits == <<Lit("c"), Lit("o"), Lit("l"), Lit("_"), DigitPlus>>
\* r"o"
PatO == <<Lit("o")>>
\* r"\d"
PatDigit == <<Digit1>>
\* r"" (the empty pattern)
PatEmpty == <<>>

TokAccepts(tok, c) ==
    IF tok.cls = "lit" THEN c = tok.ch ELSE c \in Digits

\* The positions at which a match of pat[k..] that starts at position i of s
\* (1-based, i-1 characters consumed) can end: the backtracking matcher.
RECURSIVE MatchEnds(_, _, _, _)
MatchEnds(pat, k, s, i) ==
    IF k > Len(pat) THEN {i}
    ELSE IF i > Len(s) \/ ~TokAccepts(pat[k], s[i]) THEN {}
    ELSE MatchEnds(pat, k + 1, s, i + 1)
           \cup (IF pat[k].plus THEN MatchEnds(pat, k, s, i + 1) ELSE {})

\* a variant of re_match that accepts a match starting anywhere (re.search)
re_search(pat, s) == \E i \in 1..(Len(s) + 1) : MatchEnds(pat, 1, s, i) # {}

\* re.compile(pat).match(s): a match that starts at the first character
re_match(pat, s) == MatchEnds(pat, 1, s, 1) # {}

(***************************************************************************)
(* ColumnSelector (rules.py).  The constructor arguments and the object    *)
(* have the same three fields; columns and pattern are Optional.           *)
(***************************************************************************)
Selector(c, p, a) == [columns |-> c, pattern |-> p, all |-> a]

\* ColumnSelector.validate_selector: TRUE when construction succeeds
validate_selector(s) ==
    ~( (Truthy(s.pattern) /\ Truthy(s.columns))
       \/ (Truthy(s.pattern) /\ s.all)
       \/ (Truthy(s.columns) /\ s.all) )

\* CleaningRule.columns default_factory
DefaultSelector == Selector(None, None, TRUE)

(***************************************************************************)
(* select_columns (operations.py); cols is df.columns.                     *)
(***************************************************************************)
\* a variant that tests the pattern with re.search
select_columns_search(cols, selector) ==
    IF selector.all THEN cols
    ELSE IF Truthy(selector.columns)
         THEN LET InDf(c) == c \in Range(cols) IN SelectSeq(selector.columns.v, InDf)
    ELSE IF Truthy(selector.pattern)
         THEN LET Hit(c) == re_search(selector.pattern.v, c) IN SelectSeq(cols, Hit)
    ELSE cols

\* a variant whose fall-through returns no column
select_columns_nodefault(cols, selector) ==
    IF selector.all THEN cols
    ELSE IF Truthy(selector.columns)
         THEN LET InDf(c) == c \in Range(cols) IN SelectSeq(selector.columns.v, InDf)
    ELSE IF Truthy(selector.pattern)
         THEN LET Hit(c) == re_match(selector.pattern.v, c) IN SelectSeq(cols, Hit)
    ELSE <<>>

select_columns(cols, selector) ==
    IF selector.all THEN cols
    ELSE IF Truthy(selector.columns)
         THEN LET InDf(c) == c \in Range(cols) IN SelectSeq(selector.columns.v, InDf)
    ELSE IF Truthy(selector.pattern)
         THEN LET Hit(c) == re_match(selector.pattern.v, c) IN SelectSeq(cols, Hit)
    ELSE cols

(***************************************************************************)
(* Datasets.  A DataFrame is a sequence of columns, each with a name, a    *)
(* dtype ("Utf8" or "Int64") and its values; every column has the same     *)
(* number of values.  A cell is null, a string, an integer or a float; a   *)
(* float is the exact rational n/d in lowest terms, or NaN.                *)
(***************************************************************************)
Null == [k |-> "null", s |-> <<>>, n |-> 0, d |-> 1]
S(str) == [k |-> "str", s |-> str, n |-> 0, d |-> 1]
I(num) == [k |-> "int", s |-> <<>>, n |-> num, d |-> 1]
NaN == [k |-> "nan", s |-> <<>>, n |-> 0, d |-> 1]
\* a Python list of values, as a parameter
L(items) == [k |-> "list", s |-> items, n |-> 0, d |-> 1]
\* a datetime.date, as a parameter: what a YAML document's plain
\* 2023-01-01 loads as; s is its ISO text
D(iso) == [k |-> "date", s |-> iso, n |-> 0, d |-> 1]

\* rationals: n/d with d > 0, in lowest terms
Abs(x) == IF x < 0 THEN 0 - x ELSE x
RECURSIVE GCD(_, _)
GCD(a, b) == IF b = 0 THEN a ELSE GCD(b, a % b)
Q(n, d) == LET g == GCD(Abs(n), d) IN [n |-> n \div g, d |-> d \div g]
QAdd(a, b) == Q(a.n * b.d + b.n * a.d, a.d * b.d)
QSub(a, b) == Q(a.n * b.d - b.n * a.d, a.d * b.d)
QMul(a, b) == Q(a.n * b.n, a.d * b.d)
QLeq(a, b) == a.n * b.d <= b.n * a.d
\* a / b for b > 0
QDiv(a, b) == Q(a.n * b.d, a.d * b.n)

Fl(q) == [k |-> "float", s |-> <<>>, n |-> q.n, d |-> q.d]
\* the number in a non-null numeric cell
Val(v) == Q(v.n, v.d)

Col(name, dtype, vals) == [name |-> name, dtype |-> dtype, vals |-> vals]

\* df.columns
Columns(df) == [i \in 1..Len(df) |-> df[i].name]
\* len(df)
Height(df) == IF df = <<>> THEN 0 ELSE Len(df[1].vals)
\* df[col]
ColOf(df, name) == df[CHOOSE i \in 1..Len(df) : df[i].name = name]
\* the row numbers of df for which Keep holds, in order
RowsWhere(df, Keep(_)) == SelectSeq([i \in 1..Height(df) |-> i], Keep)
\* the dataset made of the rows idxs of df (df.filter and its relatives)
TakeRows(df, idxs) ==
    [c \in 1..Len(df) |->
        [df[c] EXCEPT !.vals = [j \in 1..Len(idxs) |-> df[c].vals[idxs[j]]]]]
\* df.with_columns([f(col) for col in names]): each named column replaced
WithColumns(df, names, F(_)) ==
    [c \in 1..Len(df) |-> IF df[c].name \in names THEN F(df[c]) ELSE df[c]]
MapVals(col, G(_)) == [col EXCEPT !.vals = [j \in 1..Len(col.vals) |-> G(col.vals[j])]]

(***************************************************************************)
(* String functions of the compute engine.                                 *)
(***************************************************************************)
UpperCase == <<"A", "B", "C", "D", "M", "O", "T">>
LowerCase == <<"a", "b", "c", "d", "m", "o", "t">>
ToLower(c) ==
    IF \E i \in 1..Len(UpperCase) : UpperCase[i] = c
    THEN LowerCase[CHOOSE i \in 1..Len(UpperCase) : UpperCase[i] = c] ELSE c
ToUpper(c) ==
    IF \E i \in 1..Len(LowerCase) : LowerCase[i] = c
    THEN UpperCase[CHOOSE i \in 1..Len(LowerCase) : LowerCase[i] = c] ELSE c

RECURSIVE StripLeft(_)
StripLeft(s) == IF s # <<>> /\ Head(s) = " " THEN StripLeft(Tail(s)) ELSE s
RECURSIVE StripRight(_)
StripRight(s) ==
    IF s # <<>> /\ s[Len(s)] = " " THEN StripRight(SubSeq(s, 1, Len(s) - 1)) ELSE s
\* str.strip_chars()
StripChars(s) == StripRight(StripLeft(s))

DigitChar(d) ==
    CASE d = 0 -> "0" [] d = 1 -> "1" [] d = 2 -> "2" [] d = 3 -> "3" [] d = 4 -> "4"
      [] d = 5 -> "5" [] d = 6 -> "6" [] d = 7 -> "7" [] d = 8 -> "8" [] d = 9 -> "9"
DigitVal(c) == CHOOSE d \in 0..9 : DigitChar(d) = c

\* the decimal text of an integer (cast Int64 -> Utf8)
RECURSIVE NatToStr(_)
NatToStr(n) == IF n < 10 THEN <<DigitChar(n)>> ELSE NatToStr(n \div 10) \o <<DigitChar(n % 10)>>
IntToStr(n) == IF n < 0 THEN <<"-">> \o NatToStr(0 - n) ELSE NatToStr(n)

\* the integer a text denotes (cast Utf8 -> Int64): digits with an optional sign
IsNatStr(s) == s # <<>> /\ \A i \in 1..Len(s) : s[i] \in Digits
RECURSIVE StrToNat(_)
StrToNat(s) == IF s = <<>> THEN 0 ELSE StrToNat(SubSeq(s, 1, Len(s) - 1)) * 10 + DigitVal(s[Len(s)])
IsIntStr(s) == IsNatStr(s) \/ (s # <<>> /\ Head(s) = "-" /\ IsNatStr(Tail(s)))
StrToInt(s) == IF Head(s) = "-" THEN 0 - StrToNat(Tail(s)) ELSE StrToNat(s)

\* str.replace_all(pattern, replacement): every leftmost, longest,
\* non-overlapping match of a non-empty pattern replaced
RECURSIVE ReplaceAll(_, _, _, _)
ReplaceAll(pat, repl, s, i) ==
    IF i > Len(s) THEN <<>>
    ELSE LET ends == MatchEnds(pat, 1, s, i) \ {i}
         IN IF ends = {} THEN <<s[i]>> \o ReplaceAll(pat, repl, s, i + 1)
            ELSE LET e == CHOOSE x \in ends : \A y \in ends : y <= x
                 IN repl \o ReplaceAll(pat, repl, s, e)

(***************************************************************************)
(* The result of a call: a returned dataset, or a raised error.            *)
(***************************************************************************)
Ok(df) == [ok |-> TRUE, df |-> df, err |-> "none"]
Raise(e) == [ok |-> FALSE, df |-> <<>>, err |-> e]

\* params.get(key, default) on a parameter dictionary
Get(params, key, default) == IF key \in DOMAIN params THEN params[key] ELSE default
\* the empty dictionary
NoParams == <<>>

IsUtf8(col) == col.dtype = "Utf8"

(***************************************************************************)
(* Operations (operations.py).  columns is the resolved column list.       *)
(***************************************************************************)
\* a variant of drop_nulls that takes an empty list for every column
drop_nulls_all_when_empty(df, columns, params) ==
    LET Keep(r) == \A c \in 1..Len(df) :
                       (columns = <<>> \/ df[c].name \in Range(columns))
                           => df[c].vals[r] # Null
    IN Ok(TakeRows(df, RowsWhere(df, Keep)))

drop_nulls(df, columns, params) ==
    IF columns = <<>> THEN Ok(df)
    ELSE LET Keep(r) == \A c \in 1..Len(df) :
                            df[c].name \in Range(columns) => df[c].vals[r] # Null
         IN Ok(TakeRows(df, RowsWhere(df, Keep)))

\* with_columns over the resolved columns whose dtype is Utf8
StringOp(df, columns, G(_)) ==
    LET names == {n \in Range(columns) : IsUtf8(ColOf(df, n))}
        OnCell(v) == IF v = Null THEN Null ELSE S(G(v.s))
        OnCol(col) == MapVals(col, OnCell)
    IN WithColumns(df, names, OnCol)

MapChars(s, H(_)) == [i \in 1..Len(s) |-> H(s[i])]

trim_whitespace(df, columns, params) ==
    IF columns = <<>> THEN Ok(df) ELSE Ok(StringOp(df, columns, StripChars))

lowercase(df, columns, params) ==
    IF columns = <<>> THEN Ok(df)
    ELSE LET G(s) == MapChars(s, ToLower) IN Ok(StringOp(df, columns, G))

uppercase(df, columns, params) ==
    IF columns = <<>> THEN Ok(df)
    ELSE LET G(s) == MapChars(s, ToUpper) IN Ok(StringOp(df, columns, G))

\* pl.col(col).replace({value: replacement}): every cell equal to value
\* becomes replacement, whatever the column's dtype; value and replacement
\* are Python values of the column's type, given as cells
ReplaceValue(col, value, replacement) ==
    LET OnCell(v) == IF v = value THEN replacement ELSE v
    IN MapVals(col, OnCell)

\* params.get("value") is not None
ValueGiven(params) == "value" \in DOMAIN params /\ params["value"] # Null

\* a variant that takes the pattern branch whenever a pattern is given
replace_pattern_first(df, columns, params) ==
    IF columns = <<>> THEN Ok(df)
    ELSE IF "pattern" \in DOMAIN params
    THEN LET G(s) == ReplaceAll(params["pattern"], <<"b">>, s, 1)
         IN Ok(StringOp(df, columns, G))
    ELSE IF ValueGiven(params)
    THEN LET OnCol(col) == ReplaceValue(col, params["value"],
                                        Get(params, "replacement", S(<<>>)))
         IN Ok(WithColumns(df, Range(columns), OnCol))
    ELSE Ok(df)

replace(df, columns, params) ==
    IF columns = <<>> THEN Ok(df)
    ELSE LET hasPattern == "pattern" \in DOMAIN params
             hasValue == ValueGiven(params)
             replacement == Get(params, "replacement", <<>>)
         IN IF hasPattern /\ ~hasValue
            THEN LET G(s) == ReplaceAll(params["pattern"], replacement, s, 1)
                 IN Ok(StringOp(df, columns, G))
            ELSE IF hasValue
            THEN LET OnCol(col) == ReplaceValue(col, params["value"],
                                                Get(params, "replacement", S(<<>>)))
                 IN Ok(WithColumns(df, Range(columns), OnCol))
            ELSE Ok(df)

\* pl.col(col).cast(dtype, strict): one cell; a cell that cannot be cast
\* becomes null (the caller raises when strict)
CastCell(v, dtype) ==
    IF v = Null THEN Null
    ELSE IF dtype = "Utf8"
         THEN (CASE v.k = "int" -> S(IntToStr(v.n))
                 [] v.k = "str" -> v
                 [] v.k = "float" /\ v.d = 1 -> S(IntToStr(v.n) \o <<".", "0">>))
    ELSE IF dtype = "Float64"
         THEN (CASE v.k \in {"int", "float"} -> Fl(Val(v))
                 [] v.k = "str" -> IF IsIntStr(v.s) THEN Fl(Q(StrToInt(v.s), 1)) ELSE Null)
    ELSE CASE v.k = "int" -> v
           [] v.k = "float" -> I(IF v.n < 0 THEN 0 - ((0 - v.n) \div v.d) ELSE v.n \div v.d)
           [] v.k = "str" -> IF IsIntStr(v.s) THEN I(StrToInt(v.s)) ELSE Null
CastCol(col, dtype) ==
    LET G(v) == CastCell(v, dtype)
    IN [MapVals(col, G) EXCEPT !.dtype = dtype]
\* a cast fails on a non-null cell that has no value of the target type
CastFails(col, dtype) ==
    \E j \in 1..Len(col.vals) : col.vals[j] # Null /\ CastCell(col.vals[j], dtype) = Null

\* type_mapping of cast_type
TypeMapping(t) == CASE t = "int" -> "Int64" [] t = "float" -> "Float64" [] t = "str" -> "Utf8"

cast_type(df, columns, params) ==
    IF columns = <<>> THEN Ok(df)
    ELSE IF "dtype" \notin DOMAIN params THEN Ok(df)
    ELSE LET dtype == TypeMapping(params["dtype"])
             strict == Get(params, "strict", FALSE)
             F(col) == CastCol(col, dtype)
         IN IF strict /\ \E c \in 1..Len(df) :
                            df[c].name \in Range(columns) /\ CastFails(df[c], dtype)
            THEN Raise("InvalidOperationError")
            ELSE Ok(WithColumns(df, Range(columns), F))

(***************************************************************************)
(* Aggregates of the compute engine over a numeric column: nulls are       *)
(* skipped; an aggregate without any value is None.                        *)
(***************************************************************************)
NumericDtypes == {"Int64", "Float64"}
IsNumeric(col) == col.dtype \in NumericDtypes

QNone == [some |-> FALSE, v |-> [n |-> 0, d |-> 1]]

\* the non-null values of a column, in row order
Values(col) ==
    LET NN(v) == v # Null
        vs == SelectSeq(col.vals, NN)
    IN [j \in 1..Len(vs) |-> Val(vs[j])]

RECURSIVE QSum(_)
QSum(qs) == IF qs = <<>> THEN Q(0, 1) ELSE QAdd(Head(qs), QSum(Tail(qs)))

\* ascending order
RECURSIVE QSort(_)
QSort(qs) ==
    IF qs = <<>> THEN <<>>
    ELSE LET front == QSort(SubSeq(qs, 1, Len(qs) - 1))
             x == qs[Len(qs)]
             k == Cardinality({i \in 1..Len(front) : QLeq(front[i], x)})
         IN SubSeq(front, 1, k) \o <<x>> \o SubSeq(front, k + 1, Len(front))

\* a variant of the mean that counts the null cells as values
mean_over_all_rows(col) ==
    LET qs == Values(col)
    IN IF qs = <<>> THEN QNone ELSE Some(QDiv(QSum(qs), Q(Len(col.vals), 1)))

\* Series.mean()
mean(col) ==
    LET qs == Values(col)
    IN IF qs = <<>> THEN QNone ELSE Some(QDiv(QSum(qs), Q(Len(qs), 1)))

\* Series.median(): the middle value, or the mean of the two middle values
median(col) ==
    LET qs == QSort(Values(col))
        n == Len(qs)
    IN IF n = 0 THEN QNone
       ELSE IF n % 2 = 1 THEN Some(qs[(n + 1) \div 2])
       ELSE Some(QDiv(QAdd(qs[n \div 2], qs[n \div 2 + 1]), Q(2, 1)))

\* a variant of quantile with interpolation="linear"
quantile_linear(col, q) ==
    LET qs == QSort(Values(col))
        n == Len(qs)
        pos == QMul(Q(n - 1, 1), q)
        lo == pos.n \div pos.d
        frac == QSub(pos, Q(lo, 1))
    IN IF n = 0 THEN QNone
       ELSE IF frac.n = 0 THEN Some(qs[lo + 1])
       ELSE Some(QAdd(qs[lo + 1], QMul(frac, QSub(qs[lo + 2], qs[lo + 1]))))

\* Series.quantile(q) with the default interpolation, "nearest": the value
\* at the position round((n - 1) * q) of the sorted values, halves rounded up
quantile(col, q) ==
    LET qs == QSort(Values(col))
        n == Len(qs)
        pos == QMul(Q(n - 1, 1), q)
        idx == (2 * pos.n + pos.d) \div (2 * pos.d)
    IN IF n = 0 THEN QNone ELSE Some(qs[idx + 1])

\* the sample variance (ddof = 1): None for fewer than two values
variance(col) ==
    LET qs == Values(col)
        n == Len(qs)
        m == mean(col).v
        sq == [j \in 1..n |-> QMul(QSub(qs[j], m), QSub(qs[j], m))]
    IN IF n < 2 THEN QNone ELSE Some(QDiv(QSum(sq), Q(n - 1, 1)))

\* the square root of a rational that is the square of a rational
ISqrt(n) == CHOOSE r \in 0..n : r * r = n
QSqrt(q) == Q(ISqrt(q.n), ISqrt(q.d))

\* Series.std(): the root of the sample variance
std(col) ==
    LET v == variance(col) IN IF v.some THEN Some(QSqrt(v.v)) ELSE QNone

(***************************************************************************)
(* The remaining operations (operations.py).                               *)
(***************************************************************************)
\* pl.col(col).fill_null(value) with a Python value of the column's type,
\* given as a cell: a string for a Utf8 column, a number for a numeric one
FillValue(col, value) ==
    LET fill == CASE IsUtf8(col) /\ value.k = "str" -> value
                  [] col.dtype = "Int64" /\ value.k = "int" -> value
                  [] col.dtype = "Float64" /\ value.k \in {"int", "float"} -> Fl(Val(value))
        OnCell(v) == IF v = Null THEN fill ELSE v
    IN MapVals(col, OnCell)

\* pl.col(col).forward_fill() / backward_fill()
ForwardFill(col) ==
    [col EXCEPT !.vals =
        [j \in 1..Len(col.vals) |->
            LET prev == {i \in 1..j : col.vals[i] # Null}
            IN IF prev = {} THEN Null
               ELSE col.vals[CHOOSE i \in prev : \A x \in prev : x <= i]]]
BackwardFill(col) ==
    [col EXCEPT !.vals =
        [j \in 1..Len(col.vals) |->
            LET next == {i \in j..Len(col.vals) : col.vals[i] # Null}
            IN IF next = {} THEN Null
               ELSE col.vals[CHOOSE i \in next : \A x \in next : i <= x]]]

\* pl.col(col).fill_null(agg) for agg the column's mean or median: on a
\* numeric column the result is Float64 (the supertype of the column and
\* the aggregate); a column of another type has a null aggregate and stays
FillAggregate(col, agg) ==
    IF ~IsNumeric(col) THEN col
    ELSE [col EXCEPT
            !.dtype = "Float64",
            !.vals = [j \in 1..Len(col.vals) |->
                        IF col.vals[j] # Null THEN Fl(Val(col.vals[j]))
                        ELSE IF agg.some THEN Fl(agg.v) ELSE Null]]

fill_nulls(df, columns, params) ==
    IF columns = <<>> THEN Ok(df)
    ELSE LET strategy == Get(params, "strategy", "value")
             ByValue(col) == FillValue(col, params["value"])
             ByMean(col) == FillAggregate(col, mean(col))
             ByMedian(col) == FillAggregate(col, median(col))
         IN IF strategy = "value" /\ ValueGiven(params)
            THEN Ok(WithColumns(df, Range(columns), ByValue))
            ELSE IF strategy = "forward"
            THEN Ok(WithColumns(df, Range(columns), ForwardFill))
            ELSE IF strategy = "backward"
            THEN Ok(WithColumns(df, Range(columns), BackwardFill))
            ELSE IF strategy = "mean"
            THEN Ok(WithColumns(df, Range(columns), ByMean))
            ELSE IF strategy = "median"
            THEN Ok(WithColumns(df, Range(columns), ByMedian))
            ELSE Ok(df)

\* the cells of row r in the columns named names
RowKey(df, names, r) ==
    [c \in {i \in 1..Len(df) : df[i].name \in names} |-> df[c].vals[r]]

\* the first row of every group of rows equal on names
FirstRows(df, names) ==
    {r \in 1..Height(df) :
        \A q \in 1..(r - 1) : RowKey(df, names, q) # RowKey(df, names, r)}

\* an increasing listing of a set of row numbers
RECURSIVE Ascending(_)
Ascending(X) ==
    IF X = {} THEN <<>>
    ELSE LET m == CHOOSE x \in X : \A y \in X : x <= y
         IN <<m>> \o Ascending(X \ {m})

\* the subset drop_duplicates deduplicates on, and whether row order is kept
UniqueSubset(df, columns) == IF columns = <<>> THEN Range(Columns(df)) ELSE Range(columns)
MaintainOrder(columns, params) ==
    IF columns = <<>> THEN FALSE ELSE Get(params, "maintain_order", TRUE)

\* drop_duplicates: the outcome that keeps the first row of every group, in
\* the dataset's order
drop_duplicates(df, columns, params) ==
    Ok(TakeRows(df, Ascending(FirstRows(df, UniqueSubset(df, columns)))))

\* df.unique(...) keeps any one row of every group (keep="any"), and
\* without maintain_order gives the rows in any order: every dataset
\* drop_duplicates may return
drop_duplicates_outcomes(df, columns, params) ==
    LET names == UniqueSubset(df, columns)
        firsts == FirstRows(df, names)
        picks == {p \in [firsts -> 1..Height(df)] :
                    \A r \in firsts : RowKey(df, names, p[r]) = RowKey(df, names, r)}
        Rows(p) == {p[r] : r \in firsts}
        Listings(X) ==
            IF MaintainOrder(columns, params) THEN {Ascending(X)}
            ELSE {s \in [1..Cardinality(X) -> X] : Range(s) = X}
    IN {TakeRows(df, s) : s \in UNION {Listings(Rows(p)) : p \in picks}}

\* the comparison of a cell with the filter's value; a null cell, like
\* every comparison with null, does not pass
Compare(operator, v, value) ==
    IF v = Null THEN FALSE
    ELSE IF v.k = "str"
    THEN (CASE operator = "==" -> v = value
            [] operator = "!=" -> v # value
            [] operator = "in" -> v \in Range(value.s))
    ELSE CASE operator = "==" -> Val(v) = Val(value)
           [] operator = "!=" -> Val(v) # Val(value)
           [] operator = ">" -> ~QLeq(Val(v), Val(value))
           [] operator = ">=" -> QLeq(Val(value), Val(v))
           [] operator = "<" -> ~QLeq(Val(value), Val(v))
           [] operator = "<=" -> QLeq(Val(v), Val(value))
           [] operator = "in" -> \E i \in 1..Len(value.s) : Val(v) = Val(value.s[i])

FilterOperators == {"==", "!=", ">", ">=", "<", "<=", "in"}

\* a variant that filters on the last resolved column that has the kind
\* (text or numeric) of the first
filter_rows_on_last(df, columns, params) ==
    IF columns = <<>> \/ ~ValueGiven(params) THEN Ok(df)
    ELSE LET operator == Get(params, "operator", "==")
             alike == {i \in 1..Len(columns) :
                          IsUtf8(ColOf(df, columns[i])) = IsUtf8(ColOf(df, columns[1]))}
             last == CHOOSE i \in alike : \A k \in alike : k <= i
             col == ColOf(df, columns[last])
             Keep(r) == Compare(operator, col.vals[r], params["value"])
         IN IF operator \notin FilterOperators THEN Ok(df)
            ELSE Ok(TakeRows(df, RowsWhere(df, Keep)))

filter_rows(df, columns, params) ==
    IF columns = <<>> \/ ~ValueGiven(params) THEN Ok(df)
    ELSE LET operator == Get(params, "operator", "==")
             col == ColOf(df, columns[1])
             Keep(r) == Compare(operator, col.vals[r], params["value"])
         IN IF operator \notin FilterOperators THEN Ok(df)
            ELSE Ok(TakeRows(df, RowsWhere(df, Keep)))

\* threshold's default, 1.5
DefaultThreshold == Q(3, 2)

\* one pass of the loop of remove_outliers, over the column named name of
\* the dataset as the earlier passes left it
OutlierPass(df, name, method, threshold) ==
    LET col == ColOf(df, name)
        q1 == quantile(col, Q(1, 4))
        q3 == quantile(col, Q(3, 4))
        iqr == QSub(q3.v, q1.v)
        lower == QSub(q1.v, QMul(threshold, iqr))
        upper == QAdd(q3.v, QMul(threshold, iqr))
        InBounds(r) == /\ col.vals[r] # Null
                       /\ QLeq(lower, Val(col.vals[r]))
                       /\ QLeq(Val(col.vals[r]), upper)
        m == mean(col)
        var == variance(col)
        dev(r) == QSub(Val(col.vals[r]), m.v)
        Near(r) == /\ col.vals[r] # Null
                   /\ QLeq(QMul(dev(r), dev(r)), QMul(QMul(threshold, threshold), var.v))
    IN IF ~IsNumeric(col) THEN Ok(df)
       ELSE IF method = "iqr"
       THEN (IF ~q1.some THEN Raise("TypeError")
             ELSE Ok(TakeRows(df, RowsWhere(df, InBounds))))
       ELSE IF method = "zscore"
       THEN (IF var.some /\ var.v.n > 0 THEN Ok(TakeRows(df, RowsWhere(df, Near)))
             ELSE Ok(df))
       ELSE Ok(df)

RECURSIVE OutlierLoop(_, _, _, _)
OutlierLoop(df, columns, method, threshold) ==
    IF columns = <<>> THEN Ok(df)
    ELSE LET r == OutlierPass(df, Head(columns), method, threshold)
         IN IF r.ok THEN OutlierLoop(r.df, Tail(columns), method, threshold) ELSE r

remove_outliers(df, columns, params) ==
    IF columns = <<>> THEN Ok(df)
    ELSE OutlierLoop(df, columns, Get(params, "method", "iqr"),
                     Get(params, "threshold", DefaultThreshold))

\* a variant that subtracts the mean and does not divide
Centered(col) ==
    LET m == mean(col)
        OnCell(v) == IF v = Null THEN Null ELSE Fl(QSub(Val(v), m.v))
    IN [MapVals(col, OnCell) EXCEPT !.dtype = "Float64"]

\* ((pl.col(col) - mean) / std): null where the cell or the std is null,
\* NaN where the std is zero (0.0 / 0.0)
Standardized(col) ==
    LET m == mean(col)
        sd == variance(col)
        OnCell(v) ==
            IF v = Null \/ ~sd.some THEN Null
            ELSE IF sd.v.n = 0 THEN NaN
            ELSE Fl(QDiv(QSub(Val(v), m.v), QSqrt(sd.v)))
    IN [MapVals(col, OnCell) EXCEPT !.dtype = "Float64"]

\* a variant that leaves the columns and appends the standardized ones
\* under new names
standardize_appending(df, columns, params) ==
    IF columns = <<>> THEN Ok(df)
    ELSE LET Resolved(col) == col.name \in Range(columns) /\ IsNumeric(col)
             added == SelectSeq(df, Resolved)
         IN Ok(df \o [i \in 1..Len(added) |->
                         [Standardized(added[i]) EXCEPT !.name = @ \o <<"_", "z">>]])

standardize(df, columns, params) ==
    IF columns = <<>> THEN Ok(df)
    ELSE LET names == {n \in Range(columns) : IsNumeric(ColOf(df, n))}
         IN Ok(WithColumns(df, names, Standardized))

\* the keys of the OPERATIONS registry
OPERATIONS ==
    {"drop_nulls", "fill_nulls", "drop_duplicates", "trim_whitespace", "lowercase",
     "uppercase", "replace", "cast_type", "filter", "remove_outliers", "standardize"}

\* the members of the CleaningOperation enumeration (rules.py)
CleaningOperation ==
    {"drop_nulls", "fill_nulls", "drop_duplicates", "trim_whitespace", "lowercase",
     "uppercase", "replace", "cast_type", "filter", "remove_outliers", "standardize",
     "validate"}

\* operation(df, columns, **rule.parameters) for the registry entry op
CallOperation(op, df, columns, params) ==
    CASE op = "drop_nulls" -> drop_nulls(df, columns, params)
      [] op = "fill_nulls" -> fill_nulls(df, columns, params)
      [] op = "drop_duplicates" -> drop_duplicates(df, columns, params)
      [] op = "filter" -> filter_rows(df, columns, params)
      [] op = "remove_outliers" -> remove_outliers(df, columns, params)
      [] op = "standardize" -> standardize(df, columns, params)
      [] op = "trim_whitespace" -> trim_whitespace(df, columns, params)
      [] op = "lowercase" -> lowercase(df, columns, params)
      [] op = "uppercase" -> uppercase(df, columns, params)
      [] op = "replace" -> replace(df, columns, params)
      [] op = "cast_type" -> cast_type(df, columns, params)

(***************************************************************************)
(* The rule model (rules.py).                                              *)
(***************************************************************************)
Rule(name, op, sel, params, enabled, order) ==
    [name |-> name, operation |-> op, columns |-> sel, parameters |-> params,
     enabled |-> enabled, order |-> order]

\* CleaningRule(**fields) succeeds: the operation is a member of the
\* enumeration and the selector passes its validator
RuleValid(r) == r.operation \in CleaningOperation /\ validate_selector(r.columns)

\* the number of leading elements of an order-sorted list that do not come
\* after a rule of order o
CountLeq(sorted, o) == Cardinality({i \in 1..Len(sorted) : sorted[i].order <= o})
CountLess(sorted, o) == Cardinality({i \in 1..Len(sorted) : sorted[i].order < o})
InsertAt(s, k, r) == SubSeq(s, 1, k) \o <<r>> \o SubSeq(s, k + 1, Len(s))

\* a variant of the sort that puts a rule before the earlier rules of equal order
RECURSIVE sort_rules_ties_reversed(_)
sort_rules_ties_reversed(v) ==
    IF v = <<>> THEN <<>>
    ELSE LET front == sort_rules_ties_reversed(SubSeq(v, 1, Len(v) - 1))
             r == v[Len(v)]
         IN InsertAt(front, CountLess(front, r.order), r)

\* sorted(v, key=lambda r: r.order): Python's sort is stable
RECURSIVE SortedByOrder(_)
SortedByOrder(v) ==
    IF v = <<>> THEN <<>>
    ELSE LET front == SortedByOrder(SubSeq(v, 1, Len(v) - 1))
             r == v[Len(v)]
         IN InsertAt(front, CountLeq(front, r.order), r)

\* RuleConfig.sort_rules_by_order
sort_rules_by_order(v) == SortedByOrder(v)

\* DataContract and one entry of its columns mapping; min and max are
\* optional integers
IntNone == [some |-> FALSE, v |-> 0]
ColSpec(name, dtype, nullable, min, max) ==
    [name |-> name, dtype |-> dtype, nullable |-> nullable, min |-> min, max |-> max]
\* inferred: the dtypes are the compute engine's dtype objects, as
\* infer_contract_from_dataframe stores them, not the names a document holds
DataContract(columns, strict, coerce, inferred) ==
    [columns |-> columns, strict |-> strict, coerce |-> coerce, inferred |-> inferred]

\* RuleConfig.observability default_factory
DefaultObservability == [enabled |-> TRUE, service_name |-> "cleaning-engine"]

\* a configuration document / the keyword arguments of RuleConfig
Doc(rules, ic, oc) ==
    [rules |-> rules, input_contract |-> ic, output_contract |-> oc,
     observability |-> DefaultObservability]

\* RuleConfig(**doc): fails when a rule fails to construct, else the
\* object, its rules sorted by the field validator
RuleConfigNew(doc) ==
    IF \A i \in 1..Len(doc.rules) : RuleValid(doc.rules[i])
    THEN [ok |-> TRUE,
          cfg |-> [doc EXCEPT !.rules = sort_rules_by_order(doc.rules)]]
    ELSE [ok |-> FALSE, cfg |-> doc]

(***************************************************************************)
(* SchemaValidator (validation.py) over the contract engine.               *)
(***************************************************************************)
HasColumn(df, name) == \E i \in 1..Len(df) : df[i].name = name
NonNull(col) == {col.vals[j].n : j \in {x \in 1..Len(col.vals) : col.vals[x] # Null}}

\* one contract column against the dataset's column of that name
ColumnConforms(col, spec) ==
    /\ col.dtype = spec.dtype
    /\ (spec.nullable \/ \A j \in 1..Len(col.vals) : col.vals[j] # Null)
    /\ (spec.min.some => \A x \in NonNull(col) : x >= spec.min.v)
    /\ (spec.max.some => \A x \in NonNull(col) : x <= spec.max.v)

\* schema.validate(df) of the schema create_schema_from_contract builds
SchemaValidate(df, contract) ==
    LET specs == contract.columns
        names == {specs[i].name : i \in 1..Len(specs)}
        SpecOf(n) == specs[CHOOSE i \in 1..Len(specs) : specs[i].name = n]
        present == \A n \in names : HasColumn(df, n)
        castable == \A c \in 1..Len(df) :
                        df[c].name \in names => ~CastFails(df[c], SpecOf(df[c].name).dtype)
        F(col) == CastCol(col, SpecOf(col.name).dtype)
        coerced == IF contract.coerce THEN WithColumns(df, names, F) ELSE df
    IN IF ~present THEN Raise("SchemaError")
       ELSE IF contract.coerce /\ ~castable THEN Raise("SchemaError")
       ELSE IF contract.strict /\ \E c \in 1..Len(df) : df[c].name \notin names
            THEN Raise("SchemaError")
       ELSE IF \A n \in names : ColumnConforms(ColOf(coerced, n), SpecOf(n))
            THEN Ok(coerced)
       ELSE Raise("SchemaError")

\* SchemaValidator.validate(df, contract, contract_name)
validate(df, contract, contract_name) ==
    IF ~contract.some THEN Ok(df) ELSE SchemaValidate(df, contract.v)

SetMin(X) == CHOOSE x \in X : \A y \in X : x <= y
SetMax(X) == CHOOSE x \in X : \A y \in X : y <= x

\* SchemaValidator.infer_contract_from_dataframe(df)
infer_contract_from_dataframe(df) ==
    LET SpecFor(col) ==
            LET nums == NonNull(col)
                ranged == col.dtype = "Int64" /\ nums # {}
            IN ColSpec(col.name, col.dtype,
                       \E j \in 1..Len(col.vals) : col.vals[j] = Null,
                       IF ranged THEN Some(SetMin(nums)) ELSE IntNone,
                       IF ranged THEN Some(SetMax(nums)) ELSE IntNone)
    IN DataContract([c \in 1..Len(df) |-> SpecFor(df[c])], TRUE, FALSE, TRUE)
\* (A numeric column without any value would get min = max = None; the
\* datasets this model passes to infer_contracts have no such column.)

(***************************************************************************)
(* The store (storage.py): whether the engine was given one, whether it is *)
(* connected, and its tables (None: no such table).                        *)
(***************************************************************************)
TableNames == {"t_in", "t_out"}
NoTables == [n \in TableNames |-> None]
\* memory: db_path is ":memory:", a database that lives with its connection
Store(present, connected, tables) ==
    [present |-> present, connected |-> connected, tables |-> tables, memory |-> FALSE]

\* DuckDBStorage.load_dataframe(table_name)
load_dataframe(st, table_name) ==
    IF ~st.connected THEN Raise("NotConnected")
    ELSE IF ~st.tables[table_name].some THEN Raise("CatalogError")
    ELSE Ok(st.tables[table_name].v)

\* DuckDBStorage.save_dataframe(df, table_name) with if_exists="replace":
\* the tables afterwards
save_dataframe_replace(st, df, table_name) ==
    [st EXCEPT !.tables[table_name] = Some(df)]

\* the outcome of a store method: the store afterwards and what the call
\* returned or raised
Outcome(st, res) == [st |-> st, res |-> res]

\* DuckDBStorage.connect(): a fresh database when it is in memory
connect(st) ==
    Outcome([st EXCEPT !.connected = TRUE,
                       !.tables = IF st.memory THEN NoTables ELSE @], Ok(<<>>))

\* a variant of close without the test of self.connection
close_unguarded(st) ==
    IF st.connected THEN Outcome([st EXCEPT !.connected = FALSE], Ok(<<>>))
    ELSE Outcome(st, Raise("AttributeError"))

\* DuckDBStorage.close()
close(st) == Outcome([st EXCEPT !.connected = FALSE], Ok(<<>>))

\* INSERT INTO t SELECT * FROM arrow_table: the rows of df after the rows
\* of the table, column by position, cast to the table's column types
InsertInto(table, df) ==
    IF Len(df) # Len(table) THEN Raise("BinderError")
    ELSE IF \E c \in 1..Len(df) : CastFails(df[c], table[c].dtype)
    THEN Raise("ConversionError")
    ELSE Ok([c \in 1..Len(table) |->
                [table[c] EXCEPT !.vals = @ \o CastCol(df[c], table[c].dtype).vals]])

\* a variant of save_dataframe that drops the table whatever if_exists says
save_dataframe_drop_first(st, df, table_name, if_exists) ==
    IF ~st.connected THEN Outcome(st, Raise("NotConnected"))
    ELSE IF if_exists = "fail" /\ st.tables[table_name].some
         THEN Outcome([st EXCEPT !.tables[table_name] = None], Raise("TableExists"))
    ELSE Outcome([st EXCEPT !.tables[table_name] = Some(df)], Ok(<<>>))

\* a variant of save_dataframe without the connection guard: it connects
save_dataframe_connecting(st, df, table_name, if_exists) ==
    Outcome([st EXCEPT !.connected = TRUE, !.tables[table_name] = Some(df)], Ok(<<>>))

\* DuckDBStorage.save_dataframe(df, table_name, if_exists)
save_dataframe(st, df, table_name, if_exists) ==
    LET existing == st.tables[table_name]
        \* DROP TABLE IF EXISTS, under "replace"
        dropped == IF if_exists = "replace" THEN None ELSE existing
        \* CREATE TABLE IF NOT EXISTS ... AS SELECT * FROM arrow_table
        created == IF dropped.some THEN dropped ELSE Some(df)
        \* INSERT INTO ... SELECT * FROM arrow_table, under "append"
        inserted == InsertInto(created.v, df)
    IN IF ~st.connected THEN Outcome(st, Raise("NotConnected"))
       ELSE IF if_exists = "fail" /\ existing.some
       THEN Outcome(st, Raise("TableExists"))
       ELSE IF if_exists # "append"
       THEN Outcome([st EXCEPT !.tables[table_name] = created], Ok(<<>>))
       ELSE IF inserted.ok
       THEN Outcome([st EXCEPT !.tables[table_name] = Some(inserted.df)], Ok(<<>>))
       ELSE Outcome([st EXCEPT !.tables[table_name] = created], inserted)

\* DuckDBStorage.load_dataframe(table_name, limit): "if limit" takes 0 for
\* no limit
load_dataframe_limit(st, table_name, limit) ==
    LET r == load_dataframe(st, table_name)
        n == IF limit.v < Height(r.df) THEN limit.v ELSE Height(r.df)
    IN IF r.ok /\ limit.some /\ limit.v # 0
       THEN Outcome(st, Ok(TakeRows(r.df, [i \in 1..n |-> i])))
       ELSE Outcome(st, r)

\* the SQL statements given to query and execute
Select(table_name) == [kind |-> "select", table |-> table_name]
DropTable(table_name) == [kind |-> "drop", table |-> table_name]

\* self.connection.execute(sql): the tables afterwards and the result set
RunSql(st, sql) ==
    IF ~st.tables[sql.table].some THEN Outcome(st, Raise("CatalogError"))
    ELSE IF sql.kind = "select" THEN Outcome(st, Ok(st.tables[sql.table].v))
    ELSE Outcome([st EXCEPT !.tables[sql.table] = None], Ok(<<>>))

\* DuckDBStorage.query(sql)
query(st, sql) ==
    IF ~st.connected THEN Outcome(st, Raise("NotConnected")) ELSE RunSql(st, sql)

\* DuckDBStorage.execute(sql): the result set is not returned
execute(st, sql) ==
    IF ~st.connected THEN Outcome(st, Raise("NotConnected"))
    ELSE LET o == RunSql(st, sql) IN Outcome(o.st, IF o.res.ok THEN Ok(<<>>) ELSE o.res)

\* DuckDBStorage.list_tables(): the names the catalog query returns, in
\* any order
list_tables_outcomes(st) ==
    IF ~st.connected THEN {Outcome(st, Raise("NotConnected"))}
    ELSE LET names == {n \in TableNames : st.tables[n].some}
         IN {Outcome(st, Ok(s)) : s \in {x \in [1..Cardinality(names) -> names] : Range(x) = names}}

(***************************************************************************)
(* State.                                                                  *)
(***************************************************************************)
VARIABLES
    config,     \* engine.config: None, or the RuleConfig
    file,       \* the document save_config wrote: None, or the document
    store,      \* engine.storage and the store behind it
    frame,      \* the engine call in progress, or its outcome
    sel_args,   \* the arguments of a ColumnSelector construction
    selector,   \* the constructed ColumnSelector, if construction succeeded
    sel_pc,     \* "args", "built", "failed" or "selected"
    sel_cols,   \* df.columns of the dataset given to select_columns
    selected,   \* what select_columns returned
    opcall,     \* a call of a registry operation: its arguments and outcome
    scall,      \* a call of a store method: its arguments and outcome
    obs,        \* the engine's construction and the global tracer provider
    frame2      \* a second caller's clean() in progress on the same engine

engineVars == <<config, file, store, frame>>
selVars == <<sel_args, selector, sel_pc, sel_cols, selected>>
auxVars == <<opcall, scall, obs, frame2>>
vars ==
    <<config, file, store, frame, sel_args, selector, sel_pc, sel_cols, selected,
      opcall, scall, obs, frame2>>

Event(ev, i) == [ev |-> ev, i |-> i]

\* no operation call, no store call, no construction under observation
NoOpCall ==
    [pc |-> "idle", op |-> "none", df |-> <<>>, columns |-> <<>>, params |-> <<>>,
     res |-> Ok(<<>>)]
NoStoreCall ==
    [pc |-> "idle", op |-> "none", df |-> <<>>, table |-> "", mode |-> "",
     before |-> Store(FALSE, FALSE, NoTables), res |-> Ok(<<>>)]
NoObs == [pc |-> "idle", enable |-> TRUE, called |-> None, provider |-> None, installed |-> FALSE]

\* No call in progress.  Otherwise: op is the engine method, pc the place
\* in it ("returned" and "raised" are its two ways to end), input the
\* dataset the caller passed, df the working dataset, idx the position in
\* config.rules of the next rule, err the error raised, doc the document
\* given to load_config, and trace what the call did so far.
IdleFrame ==
    [op |-> "none", pc |-> "idle", input |-> <<>>, df |-> <<>>, idx |-> 0,
     vi |-> FALSE, vo |-> FALSE, err |-> "none", doc |-> Doc(<<>>, None, None),
     table |-> "", out |-> "", trace |-> <<>>]

Idle == frame.pc = "idle"
AuxIdle ==
    opcall = NoOpCall /\ scall = NoStoreCall /\ obs = NoObs /\ frame2 = IdleFrame
Ended == frame.pc \in {"returned", "raised"}

Raised(f, e) == [f EXCEPT !.pc = "raised", !.err = e]

(***************************************************************************)
(* The pipeline executor (engine.py).  The steps of clean() are functions  *)
(* from the call's frame to its next frame.                                *)
(***************************************************************************)
\* a variant of _apply_rule that returns the dataset unchanged when the
\* registry has no entry for the operation
apply_rule_skip_unknown(df, rule) ==
    IF rule.operation \notin OPERATIONS THEN Ok(df)
    ELSE CallOperation(rule.operation, df,
                       select_columns(Columns(df), rule.columns), rule.parameters)

\* CleaningEngine._apply_rule(df, rule)
apply_rule(df, rule) ==
    IF rule.operation \notin OPERATIONS THEN Raise("UnknownOperation")
    ELSE CallOperation(rule.operation, df,
                       select_columns(Columns(df), rule.columns), rule.parameters)

\* a variant in which the operation works on the caller's dataset in place
AfterRule_in_place(f, r) ==
    LET g == [f EXCEPT !.trace = Append(@, Event("rule", f.idx))]
    IN IF r.ok THEN [g EXCEPT !.df = r.df, !.input = r.df, !.idx = @ + 1]
       ELSE Raised(g, r.err)

\* the frame after _apply_rule answered r for the rule at f.idx
AfterRule(f, r) ==
    LET g == [f EXCEPT !.trace = Append(@, Event("rule", f.idx))]
    IN IF r.ok THEN [g EXCEPT !.df = r.df, !.idx = @ + 1] ELSE Raised(g, r.err)

\* a variant of the loop body that gives every rule the caller's dataset
rule_step_on_input(f, rule) ==
    IF ~rule.enabled THEN [f EXCEPT !.idx = @ + 1]
    ELSE AfterRule(f, apply_rule(f.input, rule))

\* a variant of the loop body that looks the operation up before it tests
\* the enabled flag
rule_step_lookup_first(f, rule) ==
    IF rule.operation \notin OPERATIONS THEN AfterRule(f, Raise("UnknownOperation"))
    ELSE IF ~rule.enabled THEN [f EXCEPT !.idx = @ + 1]
    ELSE AfterRule(f, apply_rule(f.df, rule))

\* one iteration of "for rule in self.config.rules" in clean()
rule_step(f, rule) ==
    IF ~rule.enabled THEN [f EXCEPT !.idx = @ + 1]
    ELSE AfterRule(f, apply_rule(f.df, rule))

\* the guard at the top of clean()
clean_enter(f, cfg) ==
    IF ~cfg.some THEN Raised(f, "ConfigMissing") ELSE [f EXCEPT !.pc = "validate_input"]

\* the frame after a validation phase answered r
AfterValidation(f, r, phase, next) ==
    LET g == [f EXCEPT !.trace = Append(@, Event(phase, 0))]
    IN IF r.ok THEN [g EXCEPT !.df = r.df, !.pc = next] ELSE Raised(g, r.err)

\* a variant of the input phase that validates whatever validate_input says
validate_input_always(f, cfg) ==
    IF cfg.input_contract.some
    THEN [AfterValidation(f, validate(f.df, cfg.input_contract, "input"),
                          "validate_input", "apply_rules") EXCEPT !.idx = 1]
    ELSE [f EXCEPT !.pc = "apply_rules", !.idx = 1]

\* "if validate_input and self.config.input_contract" in clean()
validate_input_phase(f, cfg) ==
    IF f.vi /\ cfg.input_contract.some
    THEN [AfterValidation(f, validate(f.df, cfg.input_contract, "input"),
                          "validate_input", "apply_rules") EXCEPT !.idx = 1]
    ELSE [f EXCEPT !.pc = "apply_rules", !.idx = 1]

\* a variant in which clean_from_storage returns without saving
AfterClean_no_save(f) == "returned"

\* where clean() returns to: clean_from_storage saves when it was given an
\* output table, every other caller has its dataset
AfterClean(f) == IF f.op = "clean_from_storage" /\ f.out # "" THEN "save" ELSE "returned"

\* "if validate_output and self.config.output_contract" in clean(), and
\* the return
validate_output_phase(f, cfg) ==
    IF f.vo /\ cfg.output_contract.some
    THEN AfterValidation(f, validate(f.df, cfg.output_contract, "output"),
                         "validate_output", AfterClean(f))
    ELSE [f EXCEPT !.pc = AfterClean(f)]

\* a variant of load_config that clears the configuration before it parses
load_config_clearing(cfg, doc) ==
    LET r == RuleConfigNew(doc) IN IF r.ok THEN Some(r.cfg) ELSE None

\* self.config after load_config(doc): unchanged when construction raises
load_config(cfg, doc) ==
    LET r == RuleConfigNew(doc) IN IF r.ok THEN Some(r.cfg) ELSE cfg

\* a parameter value in JSON mode: a date becomes its ISO text, every
\* other value of the documents is a JSON value already
JsonValue(v) == IF v.k = "date" THEN S(v.s) ELSE v

\* YAML scalars: a plain scalar that reads as a date or an integer loads
\* as one; the writer quotes a text that would
LooksLikeDate(s) ==
    /\ Len(s) = 10
    /\ \A i \in 1..10 : IF i \in {5, 8} THEN s[i] = "-" ELSE s[i] \in Digits
ImplicitlyTyped(s) == LooksLikeDate(s) \/ IsIntStr(s)

\* yaml.safe_dump of a JSON value (a text, an integer, a list of them)
RECURSIVE YamlDump(_)
YamlDump(v) ==
    CASE v.k = "str" -> [quoted |-> ImplicitlyTyped(v.s), text |-> v.s, items |-> <<>>]
      [] v.k = "int" -> [quoted |-> FALSE, text |-> IntToStr(v.n), items |-> <<>>]
      [] v.k = "list" ->
            [quoted |-> FALSE, text |-> <<>>,
             items |-> [i \in 1..Len(v.s) |-> YamlDump(v.s[i])]]

\* yaml.safe_load of what yaml.safe_dump wrote
RECURSIVE YamlLoad(_)
YamlLoad(y) ==
    IF y.items # <<>> THEN L([i \in 1..Len(y.items) |-> YamlLoad(y.items[i])])
    ELSE IF y.quoted THEN S(y.text)
    ELSE IF LooksLikeDate(y.text) THEN D(y.text)
    ELSE IF IsIntStr(y.text) THEN I(StrToInt(y.text))
    ELSE S(y.text)

YamlRoundTrip(v) == YamlLoad(YamlDump(v))

\* self.config.model_dump(mode="json"), written by yaml.safe_dump and read
\* back by yaml.safe_load: the document of a configuration.  Of the
\* parameters the documents use, "value" is the one that holds Python
\* values of any type.
model_dump(cfg) ==
    LET DumpParams(ps) ==
            [key \in DOMAIN ps |->
                IF key = "value" THEN YamlRoundTrip(JsonValue(ps[key])) ELSE ps[key]]
        DumpRule(r) == [r EXCEPT !.parameters = DumpParams(r.parameters)]
    IN [cfg EXCEPT !.rules = [i \in 1..Len(cfg.rules) |-> DumpRule(cfg.rules[i])]]
\* a contract that holds dtype objects has no JSON form
Dumpable(cfg) ==
    /\ cfg.input_contract.some => ~cfg.input_contract.v.inferred
    /\ cfg.output_contract.some => ~cfg.output_contract.v.inferred

\* self.config after infer_contracts(df)
infer_contracts(cfg, df) ==
    LET inferred == Some(infer_contract_from_dataframe(df))
    IN [cfg EXCEPT !.input_contract = IF @.some THEN @ ELSE inferred,
                   !.output_contract = IF @.some THEN @ ELSE inferred]

CallFrame(op) == [IdleFrame EXCEPT !.op = op]

(***************************************************************************)
(* Actions: one per engine method, clean() in its steps.                   *)
(***************************************************************************)
\* load_config(config) with a RuleConfig or a document other than the saved one
LoadConfig(doc) ==
    /\ Idle
    /\ config' = load_config(config, doc)
    /\ frame' = LET f == [CallFrame("load_config") EXCEPT !.doc = doc]
                IN IF RuleConfigNew(doc).ok THEN [f EXCEPT !.pc = "returned"]
                   ELSE Raised(f, "ValidationError")
    /\ UNCHANGED <<file, store, selVars, auxVars>>

\* load_config(path) of the path save_config writes
LoadConfigFile ==
    /\ Idle
    /\ IF file.some
       THEN /\ config' = load_config(config, file.v)
            /\ frame' = LET f == [CallFrame("load_config") EXCEPT !.doc = file.v]
                        IN IF RuleConfigNew(file.v).ok THEN [f EXCEPT !.pc = "returned"]
                           ELSE Raised(f, "ValidationError")
       ELSE /\ config' = config
            /\ frame' = Raised(CallFrame("load_config"), "FileNotFoundError")
    /\ UNCHANGED <<file, store, selVars, auxVars>>

\* save_config(path)
SaveConfig ==
    /\ Idle
    /\ IF ~config.some
       THEN /\ frame' = Raised(CallFrame("save_config"), "ConfigMissing")
            /\ file' = file
       ELSE IF ~Dumpable(config.v)
       THEN /\ frame' = Raised(CallFrame("save_config"), "SerializationError")
            /\ file' = file
       ELSE /\ frame' = [CallFrame("save_config") EXCEPT !.pc = "returned"]
            /\ file' = Some(model_dump(config.v))
    /\ UNCHANGED <<config, store, selVars, auxVars>>

\* infer_contracts(df)
InferContracts(df) ==
    /\ Idle
    /\ IF ~config.some
       THEN /\ frame' = Raised(CallFrame("infer_contracts"), "ConfigMissing")
            /\ config' = config
       ELSE /\ frame' = [CallFrame("infer_contracts") EXCEPT !.pc = "returned", !.input = df]
            /\ config' = Some(infer_contracts(config.v, df))
    /\ UNCHANGED <<file, store, selVars, auxVars>>

\* clean(df, validate_input, validate_output): the call and its guard
Clean(df, vi, vo) ==
    /\ Idle
    /\ frame' = clean_enter([CallFrame("clean") EXCEPT !.input = df, !.df = df,
                                                       !.vi = vi, !.vo = vo], config)
    /\ UNCHANGED <<config, file, store, selVars, auxVars>>

\* clean_from_storage(table_name, output_table): the storage guard, the
\* load, and the call of clean(df) with its guard
CleanFromStorage(table_name, output_table) ==
    /\ Idle
    /\ LET f == [CallFrame("clean_from_storage") EXCEPT !.table = table_name,
                                                        !.out = output_table]
           r == load_dataframe(store, table_name)
       IN frame' = IF ~store.present THEN Raised(f, "StorageNotConfigured")
                   ELSE IF ~r.ok THEN Raised(f, r.err)
                   ELSE clean_enter([f EXCEPT !.input = r.df, !.df = r.df,
                                              !.vi = TRUE, !.vo = TRUE], config)
    /\ UNCHANGED <<config, file, store, selVars, auxVars>>

ValidateInput ==
    /\ frame.pc = "validate_input"
    /\ frame' = validate_input_phase(frame, config.v)
    /\ UNCHANGED <<config, file, store, selVars, auxVars>>

\* the datasets the rule at f.idx may leave, g being the frame after the
\* step: drop_duplicates may keep any row of a group of duplicates
RuleDatasets(f, rule, g) ==
    IF rule.enabled /\ rule.operation = "drop_duplicates" /\ g.pc # "raised"
    THEN drop_duplicates_outcomes(f.df, select_columns(Columns(f.df), rule.columns),
                                  rule.parameters)
    ELSE {g.df}

ApplyRule ==
    /\ frame.pc = "apply_rules"
    /\ frame.idx <= Len(config.v.rules)
    /\ LET rule == config.v.rules[frame.idx]
           g == rule_step(frame, rule)
       IN \E d \in RuleDatasets(frame, rule, g) : frame' = [g EXCEPT !.df = d]
    /\ UNCHANGED <<config, file, store, selVars, auxVars>>

ValidateOutput ==
    /\ frame.pc = "apply_rules"
    /\ frame.idx > Len(config.v.rules)
    /\ frame' = validate_output_phase(frame, config.v)
    /\ UNCHANGED <<config, file, store, selVars, auxVars>>

\* self.storage.save_dataframe(cleaned_df, output_table), and the return
SaveOutput ==
    /\ frame.pc = "save"
    /\ store' = save_dataframe_replace(store, frame.df, frame.out)
    /\ frame' = [frame EXCEPT !.pc = "returned"]
    /\ UNCHANGED <<config, file, selVars, auxVars>>

\* the caller takes the outcome
Return ==
    /\ Ended
    /\ frame' = IdleFrame
    /\ UNCHANGED <<config, file, store, selVars, auxVars>>

(***************************************************************************)
(* The datasets, documents and store states the engine is run on.          *)
(***************************************************************************)
DfText ==
    <<Col(col_1, "Utf8", <<S(<<" ", "1">>), S(<<"A">>)>>),
      Col(xcol_1, "Int64", <<I(12), Null>>)>>
DfNum == <<Col(col_1, "Int64", <<I(1), I(20)>>)>>
DfOther == <<Col(other, "Utf8", <<S(<<"a", " ">>)>>)>>
Datasets == {DfText, DfNum, DfOther}

OnCol1 == Selector(Some(<<col_1>>), None, FALSE)
OnPattern == Selector(None, Some(PatColDigits), FALSE)

\* declared out of order; two rules share order 1
DocCastReplace ==
    Doc(<<Rule("mask_digits", "replace", OnPattern,
               [pattern |-> PatDigit, replacement |-> <<"b">>], TRUE, 1),
          Rule("to_upper", "uppercase", DefaultSelector, NoParams, TRUE, 1),
          Rule("to_text", "cast_type", OnCol1, [dtype |-> "str"], TRUE, 0)>>,
        None, None)

\* two rules of equal order, a name list with a column no dataset has
DocTrimCast ==
    Doc(<<Rule("trim", "trim_whitespace", DefaultSelector, NoParams, TRUE, 0),
          Rule("to_int", "cast_type", OnCol1, [dtype |-> "int"], TRUE, 0),
          Rule("no_nulls", "drop_nulls", Selector(Some(<<col_1x, col_1>>), None, FALSE),
               NoParams, TRUE, 5)>>,
        None, None)

\* an enabled rule whose operation has no registry entry, after a strict cast
DocUnknown ==
    Doc(<<Rule("to_upper", "uppercase", DefaultSelector, NoParams, TRUE, 0),
          Rule("strict_int", "cast_type", OnCol1, [dtype |-> "int", strict |-> TRUE], TRUE, 1),
          Rule("check", "validate", DefaultSelector, NoParams, TRUE, 2),
          Rule("to_lower", "lowercase", DefaultSelector, NoParams, TRUE, 3)>>,
        None, None)

\* disabled rules, one of them with an operation that has no registry entry
DocDisabled ==
    Doc(<<Rule("to_upper", "uppercase", DefaultSelector, NoParams, TRUE, 0),
          Rule("check", "validate", DefaultSelector, NoParams, FALSE, -1),
          Rule("to_lower", "lowercase", OnCol1, NoParams, FALSE, 1),
          Rule("trim", "trim_whitespace", DefaultSelector, NoParams, TRUE, 2)>>,
        None, None)

\* both contracts: the input contract coerces col_1 to text, the output
\* contract wants col_1 an integer of at most 9 without nulls
DocContracts ==
    Doc(<<Rule("trim", "trim_whitespace", OnCol1, NoParams, TRUE, 0),
          Rule("to_int", "cast_type", OnCol1, [dtype |-> "int"], TRUE, 1),
          Rule("no_nulls", "drop_nulls", OnCol1, NoParams, TRUE, 2)>>,
        Some(DataContract(<<ColSpec(col_1, "Utf8", TRUE, IntNone, IntNone)>>,
                          FALSE, TRUE, FALSE)),
        Some(DataContract(<<ColSpec(col_1, "Int64", FALSE, IntNone, Some(9))>>,
                          FALSE, FALSE, FALSE)))

\* a rule whose selector sets both a name list and a pattern
DocInvalid ==
    Doc(<<Rule("bad", "lowercase", Selector(Some(<<col_1>>), Some(PatO), FALSE),
               NoParams, TRUE, 0)>>,
        None, None)

Documents ==
    {DocCastReplace, DocTrimCast, DocUnknown, DocDisabled, DocContracts, DocInvalid}

\* the stores an engine is constructed with: none, one never connected,
\* one connected that holds a table
Stores ==
    {Store(FALSE, FALSE, NoTables), Store(TRUE, FALSE, NoTables),
     Store(TRUE, TRUE, [NoTables EXCEPT !["t_in"] = Some(DfText)])}

NoSelector == Selector(None, None, FALSE)

(***************************************************************************)
(* The engine: CleaningEngine(config, storage), then calls of its methods. *)
(***************************************************************************)
SelIdle ==
    /\ sel_args = NoSelector
    /\ selector = None
    /\ sel_pc = "off"
    /\ sel_cols = <<>>
    /\ selected = <<>>

Init ==
    /\ config \in {None} \cup {Some(RuleConfigNew(d).cfg) : d \in {x \in Documents : RuleConfigNew(x).ok}}
    /\ file = None
    /\ store \in Stores
    /\ frame = IdleFrame
    /\ SelIdle
    /\ AuxIdle

Next ==
    \/ \E doc \in Documents : LoadConfig(doc)
    \/ LoadConfigFile
    \/ SaveConfig
    \/ \E df \in Datasets : InferContracts(df)
    \/ \E df \in Datasets, vi, vo \in BOOLEAN : Clean(df, vi, vo)
    \/ \E t \in TableNames, o \in {"", "t_out"} : CleanFromStorage(t, o)
    \/ ValidateInput
    \/ ApplyRule
    \/ ValidateOutput
    \/ SaveOutput
    \/ Return

Spec == Init /\ [][Next]_vars

(***************************************************************************)
(* Construction of selectors and column resolution on their own:           *)
(* ColumnSelector(columns, pattern, all) for every combination of          *)
(* arguments, or a CleaningRule built without a columns field, then        *)
(* select_columns on a dataset.                                            *)
(***************************************************************************)
Patterns == {PatEmpty, PatColDigits, PatO, PatDigit}
SelectorArgs ==
    {Selector(c, p, a) :
        c \in {None} \cup {Some(s) : s \in SeqsUpTo(Names, MaxSelCols)},
        p \in {None} \cup {Some(x) : x \in Patterns},
        a \in BOOLEAN}
ColumnLists == {s \in SeqsUpTo(Names, MaxDfCols) : NoDup(s)}

EngineIdle ==
    /\ config = None
    /\ file = None
    /\ store = Store(FALSE, FALSE, NoTables)
    /\ frame = IdleFrame

SelInit ==
    /\ EngineIdle
    /\ AuxIdle
    /\ sel_args \in SelectorArgs
    /\ selector = None
    /\ sel_pc = "args"
    /\ sel_cols = <<>>
    /\ selected = <<>>

\* ColumnSelector(**sel_args): the model validator decides
ConstructSelector ==
    /\ sel_pc = "args"
    /\ IF validate_selector(sel_args)
       THEN selector' = Some(sel_args) /\ sel_pc' = "built"
       ELSE selector' = selector /\ sel_pc' = "failed"
    /\ UNCHANGED <<engineVars, sel_args, sel_cols, selected, auxVars>>

\* CleaningRule(name, operation) without columns: the default factory
ConstructRuleDefault ==
    /\ sel_pc = "args"
    /\ sel_args = NoSelector
    /\ selector' = Some(DefaultSelector)
    /\ sel_pc' = "default"
    /\ UNCHANGED <<engineVars, sel_args, sel_cols, selected, auxVars>>

\* select_columns(df, selector) on a dataset whose columns are cols
SelectColumns(cols) ==
    /\ sel_pc \in {"built", "default"}
    /\ sel_cols' = cols
    /\ selected' = select_columns(cols, selector.v)
    /\ sel_pc' = IF sel_pc = "default" THEN "selected_default" ELSE "selected"
    /\ UNCHANGED <<engineVars, sel_args, selector, auxVars>>

SelNext ==
    \/ ConstructSelector
    \/ ConstructRuleDefault
    \/ \E cols \in ColumnLists : SelectColumns(cols)

SpecSelector == SelInit /\ [][SelNext]_vars

(***************************************************************************)
(* Construction of a configuration on its own: an unconfigured engine      *)
(* loads one document whose rules have any orders.                         *)
(***************************************************************************)
Orders == {-1, 0, 1}
GenRules ==
    {Rule(n, "drop_nulls", DefaultSelector, NoParams, TRUE, o) : n \in {"a", "b"}, o \in Orders}
GenDocuments == {Doc(rs, None, None) : rs \in SeqsUpTo(GenRules, MaxRules)}

ConfigInit == EngineIdle /\ SelIdle /\ AuxIdle

ConfigNext == \E doc \in GenDocuments : LoadConfig(doc)

SpecConfig == ConfigInit /\ [][ConfigNext]_vars

(***************************************************************************)
(* The registry operations on their own: operation(df, columns, **params)  *)
(* for every registry entry, on a resolved column list of the dataset.     *)
(***************************************************************************)
Str(a, b) == <<a, b>>

\* text and integers, rows 1 and 4 equal
OpsMixed ==
    <<Col(col_1, "Utf8", <<S(Str(" ", "A")), Null, S(<<"1">>), S(Str(" ", "A"))>>),
      Col(other, "Int64", <<I(1), Null, I(3), I(1)>>)>>
\* integers and floats
OpsNum ==
    <<Col(other, "Int64", <<I(1), I(3), I(5)>>),
      Col(col_1, "Float64", <<Fl(Q(1, 2)), Null, Fl(Q(1, 2))>>)>>
OpsText == <<Col(col_1, "Utf8", <<S(<<"a">>), S(Str("A", " "))>>)>>
\* a dataset without rows
OpsNoRows == <<Col(other, "Int64", <<>>), Col(col_1, "Utf8", <<>>)>>
\* a numeric column without any value
OpsNulls == <<Col(other, "Int64", <<Null, Null>>)>>
\* numeric columns with nulls whose standard deviation is 2
OpsSpread ==
    <<Col(other, "Int64", <<I(1), Null, I(3), I(5)>>),
      Col(col_1, "Float64", <<Fl(Q(1, 2)), Fl(Q(5, 2)), Fl(Q(9, 2)), Null>>)>>
\* two numeric columns: without the row of the 9, the 3 that is left is
\* more than one standard deviation away from the mean of col_1
OpsOutliers ==
    <<Col(other, "Int64", <<I(0), I(0), I(0), I(9)>>),
      Col(col_1, "Int64", <<I(0), I(0), I(3), I(3)>>)>>
OpsDatasets == {OpsMixed, OpsNum, OpsText, OpsNoRows, OpsNulls, OpsSpread, OpsOutliers}

\* the keyword arguments given to each operation
OpsParams(op) ==
    CASE op = "fill_nulls" ->
            {NoParams, [strategy |-> "mean"], [strategy |-> "median"],
             [strategy |-> "forward"], [strategy |-> "backward"], [strategy |-> "zero"],
             [value |-> I(0)], [value |-> S(<<"x">>)]}
      [] op = "drop_duplicates" -> {NoParams, [maintain_order |-> FALSE]}
      [] op = "replace" ->
            {NoParams, [pattern |-> PatDigit, replacement |-> <<"b">>],
             [value |-> S(<<"a">>), replacement |-> S(<<"b">>)], [value |-> S(<<"a">>)],
             [value |-> I(1), replacement |-> I(9)],
             [pattern |-> PatDigit, value |-> S(<<"a">>), replacement |-> S(<<"b">>)],
             [pattern |-> PatDigit, value |-> Null, replacement |-> <<"b">>]}
      [] op = "cast_type" ->
            {NoParams, [dtype |-> "int"], [dtype |-> "str"], [dtype |-> "float"],
             [dtype |-> "int", strict |-> TRUE]}
      [] op = "filter" ->
            {NoParams, [value |-> I(1)], [value |-> I(3), operator |-> "<"],
             [value |-> I(1), operator |-> "~"], [value |-> S(<<"a">>), operator |-> "!="],
             [value |-> L(<<I(1), I(5)>>), operator |-> "in"]}
      [] op = "remove_outliers" ->
            {NoParams, [method |-> "zscore", threshold |-> Q(1, 1)], [method |-> "mad"]}
      [] OTHER -> {NoParams}

\* the std of a numeric column is a rational number (floats are exact in
\* this model)
IsSquare(n) == \E r \in 0..n : r * r = n
HasRationalStd(col) ==
    LET v == variance(col) IN v.some => IsSquare(v.v.n) /\ IsSquare(v.v.d)

\* the calls the model makes: a Python value given as fill, old value or
\* filter value has the type of the columns it meets, a float result is
\* exact, and a cast to text has an integral value to print
Modelled(op, df, columns, params) ==
    LET cols == {ColOf(df, n) : n \in Range(columns)}
        valued == ValueGiven(params)
        first == IF params["value"].k = "list" THEN params["value"].s[1]
                 ELSE params["value"]
        Fits(col) == IF first.k = "str" THEN IsUtf8(col) ELSE IsNumeric(col)
    IN CASE op \in {"fill_nulls", "replace"} -> valued => \A c \in cols : Fits(c)
         [] op = "filter" -> (valued /\ columns # <<>>) => Fits(ColOf(df, columns[1]))
         [] op = "standardize" -> \A c \in cols : IsNumeric(c) => HasRationalStd(c)
         [] op = "cast_type" ->
                ("dtype" \in DOMAIN params /\ params["dtype"] = "str")
                    => \A c \in cols : \A j \in 1..Len(c.vals) : c.vals[j].d = 1
         [] OTHER -> TRUE

\* the resolved column lists of a dataset: names of its columns
ResolvedLists(df) == {s \in SeqsUpTo(Range(Columns(df)), MaxSelCols) : NoDup(s)}

OpCalls ==
    {[pc |-> "args", op |-> op, df |-> df, columns |-> columns, params |-> params,
      res |-> Ok(<<>>)] :
        op \in OPERATIONS, df \in OpsDatasets,
        columns \in SeqsUpTo({col_1, other}, MaxSelCols),
        params \in UNION {OpsParams(o) : o \in OPERATIONS}}

\* every outcome the call of a registry entry may have
OperationOutcomes(op, df, columns, params) ==
    IF op = "drop_duplicates"
    THEN {Ok(d) : d \in drop_duplicates_outcomes(df, columns, params)}
    ELSE {CallOperation(op, df, columns, params)}

OpsInit ==
    /\ EngineIdle
    /\ SelIdle
    /\ scall = NoStoreCall
    /\ obs = NoObs
    /\ frame2 = IdleFrame
    /\ opcall \in {c \in OpCalls :
                    /\ c.columns \in ResolvedLists(c.df)
                    /\ c.params \in OpsParams(c.op)
                    /\ Modelled(c.op, c.df, c.columns, c.params)}

\* operation(df, columns, **rule.parameters)
ApplyOperation ==
    /\ opcall.pc = "args"
    /\ \E r \in OperationOutcomes(opcall.op, opcall.df, opcall.columns, opcall.params) :
          opcall' = [opcall EXCEPT !.pc = "done", !.res = r]
    /\ UNCHANGED <<engineVars, selVars, scall, obs, frame2>>

OpsNext == ApplyOperation

SpecOps == OpsInit /\ [][OpsNext]_vars

(***************************************************************************)
(* The pipeline on the customer example: trim and lowercase email, fill    *)
(* age with the median, remove the outliers of age, drop duplicate rows.   *)
(***************************************************************************)
id == <<"i", "d">>
email == <<"e", "m", "a", "i", "l">>
age == <<"a", "g", "e">>

DfExample ==
    <<Col(id, "Int64", <<I(1), I(2), I(3), I(4), I(5), I(5)>>),
      Col(email, "Utf8",
          <<S(<<" ", " ", "A", "@", "T", ".", "C", "O", "M", " ", " ">>),
            S(<<"b", "@", "t", ".", "c", "o", "m">>),
            Null,
            S(<<"C", "@", "T", ".", "C", "O", "M">>),
            S(<<"d", "@", "t", ".", "c", "o", "m">>),
            S(<<"d", "@", "t", ".", "c", "o", "m">>)>>),
      Col(age, "Int64", <<I(25), I(30), Null, I(150), I(28), I(28)>>)>>

OnEmail == Selector(Some(<<email>>), None, FALSE)
OnAge == Selector(Some(<<age>>), None, FALSE)

DocExample ==
    Doc(<<Rule("trim_email", "trim_whitespace", OnEmail, NoParams, TRUE, 1),
          Rule("lowercase_email", "lowercase", OnEmail, NoParams, TRUE, 2),
          Rule("fill_age", "fill_nulls", OnAge, [strategy |-> "median"], TRUE, 3),
          Rule("age_outliers", "remove_outliers", OnAge, [method |-> "iqr"], TRUE, 4),
          Rule("dedup", "drop_duplicates", DefaultSelector, NoParams, TRUE, 5)>>,
        None, None)

\* the example and every dataset made of some of its rows
ExampleDatasets ==
    {TakeRows(DfExample, Ascending(X)) : X \in SUBSET (1..Height(DfExample))}

ExampleInit ==
    /\ config = Some(RuleConfigNew(DocExample).cfg)
    /\ file = None
    /\ store = Store(FALSE, FALSE, NoTables)
    /\ frame = IdleFrame
    /\ SelIdle
    /\ AuxIdle

ExampleNext ==
    \/ \E df \in ExampleDatasets, vi, vo \in BOOLEAN : Clean(df, vi, vo)
    \/ ValidateInput
    \/ ApplyRule
    \/ ValidateOutput
    \/ Return

SpecExample == ExampleInit /\ [][ExampleNext]_vars

(***************************************************************************)
(* Saving and reloading on its own: an engine constructed with a RuleConfig *)
(* object saves it and loads the file it wrote.                            *)
(***************************************************************************)
Date20230101 == D(<<"2", "0", "2", "3", "-", "0", "1", "-", "0", "1">>)

\* rules that differ in every field; two share order 0, two share order 1
RoundTripRules ==
    {Rule("a", "drop_nulls", DefaultSelector, NoParams, TRUE, 0),
     Rule("b", "fill_nulls", OnCol1, [value |-> I(0), strategy |-> "value"], FALSE, 0),
     Rule("c", "replace", OnPattern, [pattern |-> PatDigit, replacement |-> <<"b">>], TRUE, 1),
     Rule("d", "filter", Selector(Some(<<>>), None, FALSE),
          [value |-> L(<<S(<<"a">>), S(<<"b">>)>>), operator |-> "in"], TRUE, -1),
     Rule("e", "fill_nulls", Selector(Some(<<other>>), None, FALSE),
          [value |-> Date20230101], TRUE, 1)}

RoundTripDocuments == {Doc(rs, None, None) : rs \in SeqsUpTo(RoundTripRules, MaxRules)}

RoundTripInit ==
    /\ config \in {Some(RuleConfigNew(d).cfg) : d \in RoundTripDocuments}
    /\ file = None
    /\ store = Store(FALSE, FALSE, NoTables)
    /\ frame = IdleFrame
    /\ SelIdle
    /\ AuxIdle

RoundTripNext ==
    \/ SaveConfig
    \/ LoadConfigFile
    \/ Return

SpecRoundTrip == RoundTripInit /\ [][RoundTripNext]_vars

(***************************************************************************)
(* The store on its own: DuckDBStorage(db_path), then calls of its         *)
(* methods.  scall records the last call: its arguments, the store before  *)
(* it, and what it returned or raised.                                     *)
(***************************************************************************)
\* the most rows a table is let to grow to
MaxTableRows == 4

StoreDatasets == {DfNum, DfOther}
IfExists == {"replace", "append", "fail"}
Limits == {IntNone, Some(0), Some(1)}

StoreCall(op, df, table_name, mode, res) ==
    [pc |-> "done", op |-> op, df |-> df, table |-> table_name, mode |-> mode,
     before |-> store, res |-> res]

StoreInit ==
    /\ config = None
    /\ file = None
    /\ frame = IdleFrame
    /\ SelIdle
    /\ opcall = NoOpCall
    /\ obs = NoObs
    /\ frame2 = IdleFrame
    /\ scall = NoStoreCall
    /\ store \in {[Store(TRUE, FALSE, NoTables) EXCEPT !.memory = m] : m \in BOOLEAN}

\* the store takes the outcome o of the method op
StoreStep(op, df, table_name, mode, o) ==
    /\ store' = o.st
    /\ scall' = StoreCall(op, df, table_name, mode, o.res)
    /\ UNCHANGED <<config, file, frame, selVars, opcall, obs, frame2>>

Connect ==
    /\ store.present
    /\ StoreStep("connect", <<>>, "", "", connect(store))

Close ==
    /\ store.present
    /\ StoreStep("close", <<>>, "", "", close(store))

\* __enter__ and __exit__: the two ends of a with block
Enter ==
    /\ store.present
    /\ StoreStep("__enter__", <<>>, "", "", connect(store))

Exit ==
    /\ store.present
    /\ StoreStep("__exit__", <<>>, "", "", close(store))

SaveDataframe(df, table_name, if_exists) ==
    /\ store.present
    /\ (store.connected /\ store.tables[table_name].some)
          => Height(store.tables[table_name].v) + Height(df) <= MaxTableRows
    /\ StoreStep("save_dataframe", df, table_name, if_exists,
                 save_dataframe(store, df, table_name, if_exists))

LoadDataframe(table_name, limit) ==
    /\ store.present
    /\ StoreStep("load_dataframe", <<>>, table_name, "",
                 load_dataframe_limit(store, table_name, limit))

Query(sql) ==
    /\ store.present
    /\ StoreStep("query", <<>>, sql.table, sql.kind, query(store, sql))

Execute(sql) ==
    /\ store.present
    /\ StoreStep("execute", <<>>, sql.table, sql.kind, execute(store, sql))

ListTables ==
    /\ store.present
    /\ \E o \in list_tables_outcomes(store) : StoreStep("list_tables", <<>>, "", "", o)

StoreNext ==
    \/ Connect
    \/ Close
    \/ Enter
    \/ Exit
    \/ \E df \in StoreDatasets, t \in TableNames, m \in IfExists : SaveDataframe(df, t, m)
    \/ \E t \in TableNames, l \in Limits : LoadDataframe(t, l)
    \/ \E t \in TableNames : Query(Select(t))
    \/ \E t \in TableNames : Execute(DropTable(t))
    \/ ListTables

SpecStore == StoreInit /\ [][StoreNext]_vars

(***************************************************************************)
(* Properties of selector construction and column resolution               *)
(* (SpecSelector).                                                         *)
(***************************************************************************)
\* how many of the three selection modes the arguments set: a name list
\* that is given (empty or not), a pattern that is given (empty or not),
\* all = true
ModesSet(s) ==
    (IF s.columns.some THEN 1 ELSE 0) + (IF s.pattern.some THEN 1 ELSE 0)
        + (IF s.all THEN 1 ELSE 0)
Constructed == sel_pc \in {"built", "selected"}

\* C1: whenever more than one of {columns, pattern, all} is set, an empty
\* name list and an empty pattern counting as set, construction of the
\* ColumnSelector fails: no selector object with two modes set exists.
C1_MutualExclusion ==
    /\ (sel_pc # "args" /\ ModesSet(sel_args) > 1) => sel_pc = "failed"
    /\ Constructed => ModesSet(selector.v) <= 1

\* the names of a list that the dataset has, in the list's order
RECURSIVE Present(_, _)
Present(names, cols) ==
    IF names = <<>> THEN <<>>
    ELSE (IF \E i \in 1..Len(cols) : cols[i] = Head(names) THEN <<Head(names)>> ELSE <<>>)
            \o Present(Tail(names), cols)

\* C8: for a selector whose name list is set (any list, the empty one
\* included) and whose all flag is false, select_columns returns exactly the
\* listed names the dataset has, in the selector's order, and no other name.
C8_NameListIntersection ==
    (sel_pc = "selected" /\ selector.v.columns.some /\ ~selector.v.all)
        => /\ selected = Present(selector.v.columns.v, sel_cols)
           /\ Range(selected) \subseteq Range(selector.v.columns.v)

\* A word is in the language of a pattern when its characters can be dealt
\* out to the tokens in order, one to a plain token and one or more to a
\* repeated one, each character accepted by its token.
RECURSIVE SumTo(_, _)
SumTo(cnt, k) == IF k = 0 THEN 0 ELSE SumTo(cnt, k - 1) + cnt[k]
InLanguage(pat, w) ==
    IF Len(pat) > Len(w) THEN FALSE
    ELSE \E cnt \in [1..Len(pat) -> 1..(Len(w) - Len(pat) + 1)] :
            /\ SumTo(cnt, Len(pat)) = Len(w)
            /\ \A k \in 1..Len(pat) :
                /\ pat[k].plus \/ cnt[k] = 1
                /\ \A j \in 1..cnt[k] : TokAccepts(pat[k], w[SumTo(cnt, k - 1) + j])
\* some prefix of the name is in the language: a match anchored at the start
MatchesAtStart(pat, name) == \E n \in 0..Len(name) : InLanguage(pat, SubSeq(name, 1, n))
\* the subsequence of cols for which Keep holds
IsFilterOf(out, cols, Keep(_)) ==
    \E pos \in [1..Len(out) -> 1..Len(cols)] :
        /\ \A i \in 1..Len(out) : out[i] = cols[pos[i]]
        /\ \A i, j \in 1..Len(out) : i < j => pos[i] < pos[j]
        /\ \A c \in 1..Len(cols) : Keep(cols[c]) <=> c \in Range(pos)

PatternMode == sel_pc = "selected" /\ selector.v.pattern.some
                   /\ ~selector.v.columns.some /\ ~selector.v.all

\* C9: for a selector in pattern mode, select_columns returns exactly the
\* dataset columns whose name the pattern matches from its first character
\* on, in dataset order: col_\d+ selects col_1 and not xcol_1.
C9_PatternAnchoredAtStart ==
    PatternMode =>
        /\ LET Hit(name) == MatchesAtStart(selector.v.pattern.v, name)
           IN IsFilterOf(selected, sel_cols, Hit)
        /\ selector.v.pattern.v = PatColDigits =>
              /\ col_1 \in Range(sel_cols) => col_1 \in Range(selected)
              /\ xcol_1 \notin Range(selected)

C9_Witness ==
    /\ PatternMode
    /\ selector.v.pattern.v = PatColDigits
    /\ sel_cols = <<xcol_1, other, col_1>>
    /\ selected = <<col_1>>

\* C10: select_columns returns the dataset's full column list, in dataset
\* order, when selector.all is true and when no selection mode is set; a
\* CleaningRule constructed without a columns field targets all columns.
C10_AllAndDefault ==
    /\ (sel_pc = "selected" /\ (selector.v.all \/ ModesSet(selector.v) = 0))
           => selected = sel_cols
    /\ sel_pc \in {"default", "selected_default"} => selector.v.all
    /\ sel_pc = "selected_default" => selected = sel_cols

C10_Witness ==
    /\ sel_pc = "selected"
    /\ selector.v = NoSelector
    /\ sel_cols = <<other, col_1>>
    /\ selected = <<other, col_1>>

(***************************************************************************)
(* Properties of configuration construction (SpecConfig).                  *)
(***************************************************************************)
PermsOf(n) == {p \in [1..n -> 1..n] : \A i, j \in 1..n : i # j => p[i] # p[j]}

\* out is rules reordered by order, rules of equal order in their order in rules
IsStableSortOf(out, rules) ==
    /\ Len(out) = Len(rules)
    /\ \E p \in PermsOf(Len(rules)) :
          /\ \A i \in 1..Len(out) : out[i] = rules[p[i]]
          /\ \A i, j \in 1..Len(out) :
                i < j => \/ out[i].order < out[j].order
                         \/ out[i].order = out[j].order /\ p[i] < p[j]

Loaded == frame.op = "load_config" /\ frame.pc = "returned"

\* C2: the rules of a constructed RuleConfig are a permutation of the rules
\* passed in, sorted by order non-decreasing, rules of equal order in their
\* declaration order, whatever the order values (negative, duplicated).
C2_RulesStablySorted == Loaded => IsStableSortOf(config.v.rules, frame.doc.rules)

C2_Witness ==
    /\ Loaded
    /\ [i \in 1..Len(frame.doc.rules) |-> frame.doc.rules[i].order] = <<1, -1, 1>>
    /\ [i \in 1..Len(frame.doc.rules) |-> frame.doc.rules[i].name] = <<"b", "a", "a">>
    /\ [i \in 1..Len(config.v.rules) |-> config.v.rules[i].name] = <<"a", "b", "a">>

(***************************************************************************)
(* Properties of the pipeline executor (Spec).                             *)
(***************************************************************************)
InClean == frame.op \in {"clean", "clean_from_storage"} /\ frame.pc # "idle"
                /\ frame.err \notin {"ConfigMissing", "StorageNotConfigured",
                                     "NotConnected", "CatalogError"}
Rules == config.v.rules
\* the positions in config.rules of the rules the call dispatched, in the
\* order it dispatched them
Dispatched == LET IsRule(e) == e.ev = "rule"
                  evs == SelectSeq(frame.trace, IsRule)
              IN [i \in 1..Len(evs) |-> evs[i].i]
HasEvent(ev) == \E i \in 1..Len(frame.trace) : frame.trace[i].ev = ev
\* the dataset the rule loop starts from: the caller's, or what input
\* validation made of it
LoopStart ==
    IF frame.vi /\ config.v.input_contract.some
    THEN validate(frame.input, config.v.input_contract, "input")
    ELSE Ok(frame.input)
\* the enabled rules among the first k, applied one after the other, each to
\* the dataset the one before it produced
RECURSIVE Chain(_, _, _)
Chain(rules, k, start) ==
    IF k = 0 THEN start
    ELSE LET before == Chain(rules, k - 1, start)
         IN IF ~before.ok \/ ~rules[k].enabled THEN before
            ELSE apply_rule(before.df, rules[k])
EnabledUpTo(rules, k) == SelectSeq([i \in 1..k |-> i], LAMBDA i : rules[i].enabled)

\* C3: within one clean() the enabled rules are applied one at a time in
\* ascending order (rules of equal order in declaration order), each
\* resolved and type-checked against the dataset the rule before it
\* produced, never against the caller's input: after a cast of an integer
\* column to text, a pattern replacement and an uppercase treat it as text.
C3_RulesSeeCurrentDataset ==
    (InClean /\ frame.pc \in {"apply_rules", "save", "returned"}) =>
        /\ Dispatched = EnabledUpTo(Rules, frame.idx - 1)
        /\ \A i \in 1..(Len(Rules) - 1) : Rules[i].order <= Rules[i + 1].order
        /\ frame.df = Chain(Rules, frame.idx - 1, LoopStart).df
        /\ (frame.pc = "returned" /\ frame.input = DfNum
                /\ config.v = RuleConfigNew(DocCastReplace).cfg)
              => /\ [i \in 1..3 |-> Rules[i].name] = <<"to_text", "mask_digits", "to_upper">>
                 /\ frame.df = <<Col(col_1, "Utf8", <<S(<<"B">>), S(<<"B", "B">>)>>)>>

C3_Witness ==
    /\ frame.op = "clean"
    /\ frame.pc = "returned"
    /\ frame.input = DfNum
    /\ config.v = RuleConfigNew(DocCastReplace).cfg
    /\ Dispatched = <<1, 2, 3>>
    /\ frame.df = <<Col(col_1, "Utf8", <<S(<<"B">>), S(<<"B", "B">>)>>)>>

\* what clean(df, vi, vo) answers under a configuration, computed at once:
\* input validation, the chain of enabled rules, output validation
RefClean(cfg, df, vi, vo) ==
    LET start == IF vi /\ cfg.input_contract.some
                 THEN validate(df, cfg.input_contract, "input") ELSE Ok(df)
        done == Chain(cfg.rules, Len(cfg.rules), start)
    IN IF ~done.ok THEN Raise(done.err)
       ELSE IF vo /\ cfg.output_contract.some
            THEN LET out == validate(done.df, cfg.output_contract, "output")
                 IN IF out.ok THEN out ELSE Raise(out.err)
       ELSE done
\* what the call in the frame answered
FrameResult == IF frame.pc = "raised" THEN Raise(frame.err) ELSE Ok(frame.df)
CleanEnded == InClean /\ frame.pc \in {"returned", "raised", "save"}
WithoutRule(cfg, k) ==
    [cfg EXCEPT !.rules = SubSeq(cfg.rules, 1, k - 1) \o SubSeq(cfg.rules, k + 1, Len(cfg.rules))]

\* C4: a rule with enabled = false is never applied and never resolved: what
\* clean() returns or raises is what it returns or raises under the
\* configuration without that rule, also when the disabled rule names an
\* operation that has no registry entry.
C4_DisabledRuleIsAbsent ==
    /\ InClean => \A i \in 1..Len(Dispatched) : Rules[Dispatched[i]].enabled
    /\ CleanEnded =>
          \A k \in 1..Len(Rules) :
              ~Rules[k].enabled =>
                  FrameResult = RefClean(WithoutRule(config.v, k), frame.input,
                                         frame.vi, frame.vo)

C4_Witness ==
    /\ frame.op = "clean"
    /\ frame.pc = "returned"
    /\ config.v = RuleConfigNew(DocDisabled).cfg
    /\ Rules[1].operation = "validate" /\ ~Rules[1].enabled
    /\ frame.input = DfText
    /\ frame.df = <<Col(col_1, "Utf8", <<S(<<"1">>), S(<<"A">>)>>),
                    Col(xcol_1, "Int64", <<I(12), Null>>)>>

\* C5: clean() fails with the configuration-missing error exactly when no
\* configuration is loaded, and no engine operation takes a configured
\* engine back to unconfigured.
C5_ConfiguredForGood ==
    [][/\ config.some => config'.some
       /\ (frame.pc = "idle" /\ frame'.op = "clean")
              => (frame'.err = "ConfigMissing" <=> ~config.some)
       /\ (frame'.op \in {"clean", "clean_from_storage"} /\ frame'.err = "ConfigMissing")
              => ~config.some /\ ~config'.some]_vars

\* a load_config that failed on an engine that stays configured
C5_Witness ==
    /\ config.some
    /\ frame.op = "load_config"
    /\ frame.pc = "raised"

\* the first enabled rule whose operation has no registry entry (0: none)
FirstUnknown ==
    LET bad == {k \in 1..Len(Rules) : Rules[k].enabled /\ Rules[k].operation \notin OPERATIONS}
    IN IF bad = {} THEN 0 ELSE CHOOSE k \in bad : \A j \in bad : k <= j

C7_PhaseOrder ==
    InClean =>
        LET tr == frame.trace
            ic == config.v.input_contract
            oc == config.v.output_contract
            final == Chain(Rules, Len(Rules), LoopStart)
        IN /\ \A i \in 1..Len(tr) :
                  tr[i].ev = "validate_input" => i = 1 /\ frame.vi /\ ic.some
           /\ (frame.pc # "validate_input" /\ frame.vi /\ ic.some)
                  => tr # <<>> /\ tr[1].ev = "validate_input"
           /\ (frame.vi /\ ic.some /\ ~validate(frame.input, ic, "input").ok)
                  => /\ frame.pc \in {"validate_input", "raised"}
                     /\ Dispatched = <<>>
                     /\ frame.pc = "raised" => frame.err = "SchemaError"
           /\ \A i \in 1..Len(tr) :
                  tr[i].ev = "validate_output"
                      => /\ i = Len(tr) /\ frame.vo /\ oc.some
                         /\ Dispatched = EnabledUpTo(Rules, Len(Rules))
                         /\ final.ok
                         /\ IF validate(final.df, oc, "output").ok
                            THEN frame.pc \in {"returned", "save"}
                                    /\ frame.df = validate(final.df, oc, "output").df
                            ELSE frame.pc = "raised" /\ frame.err = "SchemaError"
           /\ (frame.pc \in {"returned", "save"} /\ frame.vo /\ oc.some)
                  => HasEvent("validate_output")

\* a call that went through all three phases and returned
C7_Witness ==
    /\ frame.op = "clean"
    /\ frame.pc = "returned"
    /\ frame.input = DfText
    /\ [i \in 1..Len(frame.trace) |-> frame.trace[i].ev]
          = <<"validate_input", "rule", "rule", "rule", "validate_output">>
    /\ frame.df = <<Col(col_1, "Int64", <<I(1)>>), Col(xcol_1, "Int64", <<I(12)>>)>>


(***************************************************************************)
(* Properties of the registry operations (SpecOps).                        *)
(***************************************************************************)
OpDone == opcall.pc = "done"

\* the rows of a dataset, as tuples of cells
Row(df, r) == [c \in 1..Len(df) |-> df[c].vals[r]]
RowsOf(df) == {Row(df, r) : r \in 1..Height(df)}
SameSchema(a, b) ==
    /\ Columns(a) = Columns(b)
    /\ \A c \in 1..Len(a) : a[c].dtype = b[c].dtype

\* out holds every distinct row of df exactly once
DistinctRowsOf(df, out) ==
    /\ SameSchema(df, out)
    /\ RowsOf(out) = RowsOf(df)
    /\ Height(out) = Cardinality(RowsOf(df))

\* C11: for every registry operation other than drop_duplicates, every
\* dataset and every parameter map, a call with an empty resolved-column
\* list returns the dataset unchanged; drop_duplicates with an empty list
\* returns the distinct rows of the dataset, compared on all columns.
C11_EmptyColumnsNoOp ==
    (OpDone /\ opcall.columns = <<>>) =>
        IF opcall.op = "drop_duplicates"
        THEN opcall.res.ok /\ DistinctRowsOf(opcall.df, opcall.res.df)
        ELSE opcall.res = Ok(opcall.df)

\* drop_duplicates without columns took one of two equal rows out
C11_Witness ==
    /\ OpDone
    /\ opcall.columns = <<>>
    /\ opcall.op = "drop_duplicates"
    /\ opcall.df = OpsMixed
    /\ Height(opcall.res.df) = 3

StringOperations == {"trim_whitespace", "lowercase", "uppercase", "replace"}
NumericFill ==
    opcall.op = "fill_nulls" /\ Get(opcall.params, "strategy", "value") \in {"mean", "median"}
Unchanged(name) == ColOf(opcall.res.df, name) = ColOf(opcall.df, name)
NumericOnly(df, columns) ==
    LET Num(n) == IsNumeric(ColOf(df, n)) IN SelectSeq(columns, Num)

\* C12: no operation raises on a column of the wrong type.  A string
\* operation (trim_whitespace, lowercase, uppercase, replace) leaves every
\* resolved column that is not a string column unchanged; fill_nulls with
\* mean or median and standardize leave every resolved column that is not
\* numeric unchanged; remove_outliers returns what it returns for the
\* numeric resolved columns alone (it does not filter on the others).
C12_TypeMismatchSkipped ==
    OpDone =>
        /\ opcall.op \in StringOperations =>
              /\ opcall.res.ok
              /\ \A n \in Range(opcall.columns) :
                    ~IsUtf8(ColOf(opcall.df, n)) => Unchanged(n)
        /\ (NumericFill \/ opcall.op = "standardize") =>
              /\ opcall.res.ok
              /\ \A n \in Range(opcall.columns) :
                    ~IsNumeric(ColOf(opcall.df, n)) => Unchanged(n)
        /\ opcall.op = "remove_outliers" =>
              opcall.res = remove_outliers(opcall.df,
                                           NumericOnly(opcall.df, opcall.columns),
                                           opcall.params)


(***************************************************************************)
(* Properties of the pipeline on the customer example (SpecExample).       *)
(***************************************************************************)
CellsOf(df, name) == Range(ColOf(df, name).vals)

\* the text s trimmed and lowercased, as the two email rules leave it
Cleaned(s) == MapChars(StripChars(s), ToLower)
CleanedEmails ==
    {S(Cleaned(v.s)) : v \in {x \in CellsOf(DfExample, email) : x # Null}}

\* C13: clean() without contract validation on the six-row example, under
\* the rules trim and lowercase email, fill age with the median, remove the
\* IQR outliers of age, drop duplicates on all columns, returns exactly
\* four rows: every email that is not null is trimmed and lowercased, age
\* has no null, no row has age 150, and one row has id 5.
C13_EndToEndExample ==
    (Ended /\ frame.op = "clean" /\ frame.input = DfExample) =>
        /\ frame.pc = "returned"
        /\ Height(frame.df) = 4
        /\ CellsOf(frame.df, email) \subseteq CleanedEmails \cup {Null}
        /\ Null \notin CellsOf(frame.df, age)
        /\ \A v \in CellsOf(frame.df, age) : Val(v) # Q(150, 1)
        /\ Cardinality({r \in 1..Height(frame.df) : ColOf(frame.df, id).vals[r] = I(5)}) = 1

\* the call on the example returned, its first email trimmed and lowercased
C13_Witness ==
    /\ frame.pc = "returned"
    /\ frame.input = DfExample
    /\ Len(frame.trace) = 5
    /\ ColOf(frame.df, email).vals[1] = S(<<"a", "@", "t", ".", "c", "o", "m">>)


(***************************************************************************)
(* Properties of saving and reloading a configuration (SpecRoundTrip).     *)
(***************************************************************************)
Saved == frame.op = "save_config" /\ frame.pc = "returned"

\* C14: for every RuleConfig, the configuration load_config builds from
\* the document save_config wrote has the same rule sequence as the saved
\* one: the same rules in the same positions, equal in name, operation,
\* selector, order, enabled and parameters.
C14_RoundTrip ==
    Saved =>
        LET loaded == load_config(None, file.v)
        IN /\ loaded.some
           /\ loaded.v.rules = config.v.rules


(***************************************************************************)
(* Properties of the store (SpecStore).                                    *)
(***************************************************************************)
StoreDone == scall.pc = "done"
DataMethods == {"save_dataframe", "load_dataframe", "query", "execute", "list_tables"}
SaveCalled(mode) == StoreDone /\ scall.op = "save_dataframe" /\ scall.mode = mode

\* C15: on a store without a connection (never connected), each of
\* save_dataframe, load_dataframe, query, execute and list_tables raises
\* the not-connected error, and the store is afterwards as it was: still
\* unconnected, its tables untouched.
C15_NotConnected ==
    (StoreDone /\ scall.op \in DataMethods /\ ~scall.before.connected) =>
        /\ scall.res = Raise("NotConnected")
        /\ store = scall.before
        /\ ~store.connected

\* a save on the store before any connect was refused
C15_Witness ==
    /\ SaveCalled("replace")
    /\ ~scall.before.connected
    /\ scall.before.tables = NoTables
    /\ scall.res = Raise("NotConnected")

\* C16: save_dataframe with if_exists="fail" on the name of a table that
\* exists raises the table-exists error and changes nothing: the store,
\* the table's rows and the set of tables included, is as it was.
C16_FailOnExists ==
    (SaveCalled("fail") /\ scall.before.connected
        /\ scall.before.tables[scall.table].some) =>
            /\ scall.res = Raise("TableExists")
            /\ store = scall.before

\* a fail-mode save met an existing table holding other rows than its own
C16_Witness ==
    /\ SaveCalled("fail")
    /\ scall.before.connected
    /\ scall.before.tables[scall.table].some
    /\ scall.before.tables[scall.table].v # scall.df
    /\ scall.res.err = "TableExists"

\* a dataset's schema without rows
NoRows(df) == [c \in 1..Len(df) |-> [df[c] EXCEPT !.vals = <<>>]]

\* C17: after a save_dataframe(df, t, if_exists) that succeeded, with
\* "replace" t holds exactly the rows of df; with "append" t holds the rows
\* it had before (none if it did not exist) followed by one copy of the
\* rows of df, so len(df) more rows than before; with "fail", t not having
\* existed, t holds exactly the rows of df.
C17_SaveModes ==
    (StoreDone /\ scall.op = "save_dataframe" /\ scall.res.ok) =>
        LET prior == scall.before.tables[scall.table]
            now == store.tables[scall.table]
            rows_before == IF prior.some THEN prior.v ELSE NoRows(scall.df)
        IN /\ now.some
           /\ scall.mode \in {"replace", "fail"} => now.v = scall.df
           /\ scall.mode = "append" =>
                 /\ Height(now.v) = Height(rows_before) + Height(scall.df)
                 /\ now.v = InsertInto(rows_before, scall.df).df


\* the numeric columns a finished fill_nulls(strategy="mean") call targeted
MeanFilled ==
    IF OpDone /\ opcall.op = "fill_nulls" /\ Get(opcall.params, "strategy", "value") = "mean"
    THEN {n \in Range(opcall.columns) : IsNumeric(ColOf(opcall.df, n))}
    ELSE {}

\* the sum of the non-null values of a column over their number
MeanOfValues(col) == QDiv(QSum(Values(col)), Q(Len(Values(col)), 1))

\* the column named n after the fill: no null, every cell that had a value
\* has that value, every cell that was null has the mean of the values
\* the column had
FilledWithMean(n) ==
    LET before == ColOf(opcall.df, n)
        after == ColOf(opcall.res.df, n)
    IN /\ opcall.res.ok
       /\ Null \notin Range(after.vals)
       /\ \A j \in 1..Len(before.vals) :
             IF before.vals[j] # Null THEN Val(after.vals[j]) = Val(before.vals[j])
             ELSE Val(after.vals[j]) = MeanOfValues(before)

\* C18 as stated: for every numeric column targeted by fill_nulls with
\* strategy "mean", the result has no null in the column, every value that
\* was not null is unchanged, and every value that was null is the mean of
\* the column's non-null values before the fill.
C18_FillMean_AsStated == \A n \in MeanFilled : FilledWithMean(n)

HasValue(col) == \E j \in 1..Len(col.vals) : col.vals[j] # Null

\* C18: for every numeric column with at least one non-null value targeted
\* by fill_nulls with strategy "mean", the result has no null in the
\* column, every value that was not null is unchanged, and every value
\* that was null is the mean of the non-null values before the fill; a
\* targeted numeric column without any non-null value has no mean and
\* keeps its nulls.
C18_FillMean ==
    \A n \in MeanFilled :
        IF HasValue(ColOf(opcall.df, n)) THEN FilledWithMean(n)
        ELSE /\ opcall.res.ok
             /\ ColOf(opcall.res.df, n).vals = ColOf(opcall.df, n).vals

\* the null of the integer column 1, null, 3, 1 became 5/3
C18_Witness ==
    /\ other \in MeanFilled
    /\ opcall.df = OpsMixed
    /\ ColOf(opcall.res.df, other).vals[2] = Fl(Q(5, 3))
    /\ ColOf(opcall.res.df, other).vals[3] = Fl(Q(3, 1))


(***************************************************************************)
(* Construction on its own: CleaningEngine(config, storage,                *)
(* enable_observability) for every document with every observability map,  *)
(* any number of engines in one process.  obs.provider is the process-wide *)
(* tracer provider, obs.called the arguments the last construction gave to *)
(* setup_observability, obs.installed whether it changed the provider.     *)
(***************************************************************************)
\* observability maps of a document: the default, disabled ones, one that
\* names the service and switches the console exporter off, an empty one
NoMap == [k \in {} |-> TRUE]
ObservabilityMaps ==
    {DefaultObservability,
     [enabled |-> FALSE, service_name |-> "cleaning-engine"],
     [enabled |-> FALSE],
     [enabled |-> TRUE, service_name |-> "custom-service", console_export |-> FALSE],
     NoMap}

ConstructDocuments ==
    {[d EXCEPT !.observability = m] : d \in Documents, m \in ObservabilityMaps}

TracerProvider(service_name, console_export) ==
    [service_name |-> service_name, console_export |-> console_export]

\* trace.set_tracer_provider: the process-wide provider is set once, a
\* later call leaves the one in place
set_tracer_provider(current, provider) ==
    IF current.some THEN current ELSE Some(provider)

setup_observability(current, service_name, console_export) ==
    set_tracer_provider(current, TracerProvider(service_name, console_export))

\* the observability part of __init__: the provider after it
init_observability(current, cfg, enable_observability) ==
    IF enable_observability /\ cfg.some
    THEN setup_observability(current,
                             Get(cfg.v.observability, "service_name", "cleaning-engine"),
                             Get(cfg.v.observability, "console_export", TRUE))
    ELSE current

\* CleaningEngine(config, storage, enable_observability); arg is None or
\* the document of the RuleConfig
Construct(arg, storage, enable_observability) ==
    /\ Idle
    /\ store' = storage
    /\ IF arg.some /\ ~RuleConfigNew(arg.v).ok
       THEN /\ config' = None
            /\ obs' = [obs EXCEPT !.pc = "failed", !.enable = enable_observability,
                                  !.called = None, !.installed = FALSE]
       ELSE LET cfg == IF arg.some THEN load_config(None, arg.v) ELSE None
                after == init_observability(obs.provider, cfg, enable_observability)
            IN /\ config' = cfg
               /\ obs' = [pc |-> "built",
                          enable |-> enable_observability,
                          called |-> IF enable_observability /\ cfg.some
                                     THEN Some(TracerProvider(
                                              Get(cfg.v.observability, "service_name", "cleaning-engine"),
                                              Get(cfg.v.observability, "console_export", TRUE)))
                                     ELSE None,
                          provider |-> after,
                          installed |-> after # obs.provider]
    /\ UNCHANGED <<file, frame, selVars, opcall, scall, frame2>>

ConstructInit ==
    /\ config = None
    /\ file = None
    /\ store = Store(FALSE, FALSE, NoTables)
    /\ frame = IdleFrame
    /\ SelIdle
    /\ AuxIdle

ConstructNext ==
    \E arg \in {None} \cup {Some(d) : d \in ConstructDocuments},
       storage \in Stores, enable_observability \in BOOLEAN :
        Construct(arg, storage, enable_observability)

SpecConstruct == ConstructInit /\ [][ConstructNext]_vars

(***************************************************************************)
(* Two callers on one configured engine: each calls clean() once, and the  *)
(* steps of the two calls (the input validation, each iteration of the     *)
(* rule loop, the output validation) interleave in every way.  frame is    *)
(* the first caller's call, frame2 the second's.                           *)
(***************************************************************************)
\* a variant that keeps the working dataset on the engine, where the call
\* that wrote last is the one every call reads
Working_on_engine(f, g) == IF g.pc = "apply_rules" /\ g.idx > 1 THEN g.df ELSE f.df

\* the dataset a step of the call f works on, g being the other call: df
\* is a local of clean(), each call has its own
Working(f, g) == f.df

\* the next step of clean() in the call f: the frame after it
clean_step(f, g, cfg) ==
    LET w == [f EXCEPT !.df = Working(f, g)]
    IN IF f.pc = "validate_input" THEN validate_input_phase(w, cfg)
       ELSE IF f.idx <= Len(cfg.rules) THEN rule_step(w, cfg.rules[f.idx])
       ELSE validate_output_phase(w, cfg)

Running(f) == f.pc \in {"validate_input", "apply_rules"}

Clean1(df, vi, vo) ==
    /\ frame.pc = "idle"
    /\ frame' = clean_enter([CallFrame("clean") EXCEPT !.input = df, !.df = df,
                                                       !.vi = vi, !.vo = vo], config)
    /\ UNCHANGED <<config, file, store, selVars, auxVars>>

Clean2(df, vi, vo) ==
    /\ frame2.pc = "idle"
    /\ frame2' = clean_enter([CallFrame("clean") EXCEPT !.input = df, !.df = df,
                                                        !.vi = vi, !.vo = vo], config)
    /\ UNCHANGED <<config, file, store, frame, selVars, opcall, scall, obs>>

Step1 ==
    /\ Running(frame)
    /\ frame' = clean_step(frame, frame2, config.v)
    /\ UNCHANGED <<config, file, store, selVars, auxVars>>

Step2 ==
    /\ Running(frame2)
    /\ frame2' = clean_step(frame2, frame, config.v)
    /\ UNCHANGED <<config, file, store, frame, selVars, opcall, scall, obs>>

\* both callers have their outcomes
ReturnBoth ==
    /\ frame.pc \in {"returned", "raised"}
    /\ frame2.pc \in {"returned", "raised"}
    /\ frame' = IdleFrame
    /\ frame2' = IdleFrame
    /\ UNCHANGED <<config, file, store, selVars, opcall, scall, obs>>

ReentrantInit ==
    /\ config \in {Some(RuleConfigNew(d).cfg) : d \in {x \in Documents : RuleConfigNew(x).ok}}
    /\ file = None
    /\ store = Store(FALSE, FALSE, NoTables)
    /\ frame = IdleFrame
    /\ SelIdle
    /\ AuxIdle

ReentrantNext ==
    \/ \E df \in Datasets, vi, vo \in BOOLEAN : Clean1(df, vi, vo)
    \/ \E df \in Datasets, vi, vo \in BOOLEAN : Clean2(df, vi, vo)
    \/ Step1
    \/ Step2
    \/ ReturnBoth

SpecReentrant == ReentrantInit /\ [][ReentrantNext]_vars

(***************************************************************************)
(* Properties of the errors of clean() (Spec).                             *)
(***************************************************************************)
\* clean() ended in a validation phase that raised
LastEvent == frame.trace[Len(frame.trace)].ev
ValidationRaised ==
    /\ frame.op \in {"clean", "clean_from_storage"}
    /\ frame.pc = "raised"
    /\ frame.trace # <<>>
    /\ LastEvent \in {"validate_input", "validate_output"}

\* C19: the error clean() raises for a violated contract tells the caller
\* the phase: what input validation raises for a contract and a dataset
\* differs from what output validation raises for the same contract and
\* dataset.
C19_PhaseInError ==
    ValidationRaised =>
        LET contract == IF LastEvent = "validate_input" THEN config.v.input_contract
                        ELSE config.v.output_contract
            elsewhere == IF LastEvent = "validate_input" THEN "output" ELSE "input"
        IN Raise(frame.err) # validate(frame.df, contract, elsewhere)


(***************************************************************************)
(* Properties of construction (SpecConstruct).                             *)
(***************************************************************************)
EngineBuilt == obs.pc = "built"
Disabled == config.some /\ "enabled" \in DOMAIN config.v.observability
                        /\ config.v.observability["enabled"] = FALSE

\* C20: constructing the engine with a configuration whose observability
\* map has enabled = false installs no tracer provider; a provider is
\* installed only when the configuration's observability is enabled.
C20_DisabledInstallsNothing ==
    EngineBuilt =>
        /\ Disabled => (~obs.installed /\ obs.called = None)
        /\ obs.installed => (config.some /\ Get(config.v.observability, "enabled", TRUE))


(***************************************************************************)
(* Frame properties of clean() (Spec).                                     *)
(***************************************************************************)
\* C21: clean() leaves the configuration (rules, their order, both
\* contracts) and the caller's input dataset as they were, whether it
\* returns or raises: no step of a clean() call changes either, the call
\* starts its work on the dataset the caller passed, and the rules are
\* sorted by order after the step as before it.
C21_CleanLeavesConfigAndInput ==
    [][/\ (frame'.op \in {"clean", "clean_from_storage"} /\ frame'.pc # "idle") =>
            /\ config' = config
            /\ config.some =>
                  \A i, j \in 1..Len(config'.v.rules) :
                      i < j => config'.v.rules[i].order <= config'.v.rules[j].order
       /\ (Idle /\ frame'.op = "clean") => frame'.df = frame'.input
       /\ (InClean /\ ~Ended) => frame'.input = frame.input]_vars

\* a clean() call returned a dataset other than the one it was given, and
\* a later one raised after a rule had changed its working dataset
C21_Witness ==
    /\ frame.op = "clean"
    /\ Ended
    /\ frame.df # frame.input
    /\ \E i \in 1..Len(frame.trace) : frame.trace[i].ev = "rule"
    /\ Len(config.v.rules) >= 2


(***************************************************************************)
(* Properties of two interleaved clean() calls (SpecReentrant).            *)
(***************************************************************************)
\* clean() of the call f run on its own, from where f stands to its end
RECURSIVE RunAlone(_, _)
RunAlone(f, cfg) ==
    IF f.pc = "validate_input" THEN RunAlone(validate_input_phase(f, cfg), cfg)
    ELSE IF f.pc = "apply_rules" /\ f.idx <= Len(cfg.rules)
    THEN RunAlone(rule_step(f, cfg.rules[f.idx]), cfg)
    ELSE IF f.pc = "apply_rules" THEN validate_output_phase(f, cfg)
    ELSE f
\* the call of f as its caller made it
Entered(f) ==
    clean_enter([CallFrame("clean") EXCEPT !.input = f.input, !.df = f.input,
                                           !.vi = f.vi, !.vo = f.vo], config)
Outcome2(f) == [pc |-> f.pc, df |-> IF f.pc = "returned" THEN f.df ELSE <<>>, err |-> f.err]
AsAlone(f) ==
    f.pc \in {"returned", "raised"} => Outcome2(f) = Outcome2(RunAlone(Entered(f), config.v))

\* C22: two clean() calls on one configured engine, their steps interleaved
\* in any way, are independent: each ends as it would have ended alone,
\* with the same dataset or the same error.
C22_InterleavedCallsIndependent == AsAlone(frame) /\ AsAlone(frame2)

\* the second call ran a rule while the first was between two of its
\* rules, on a different dataset, and both returned different datasets
C22_Witness ==
    /\ frame.pc = "returned"
    /\ frame2.pc = "returned"
    /\ frame.input # frame2.input
    /\ frame.df # frame2.df
    /\ frame.df # frame.input
    /\ Len(frame.trace) >= 2
    /\ Len(frame2.trace) >= 2


\* the columns of a standardize call the claim is about: resolved, numeric,
\* with two distinct values at least
Spread(col) == IsNumeric(col) /\ Cardinality(Range(Values(col))) >= 2
ZScores(before, after) ==
    /\ after.name = before.name
    /\ Len(after.vals) = Len(before.vals)
    /\ \A j \in 1..Len(before.vals) :
          IF before.vals[j] = Null THEN after.vals[j] = Null
          ELSE after.vals[j] =
                   Fl(QDiv(QSub(Val(before.vals[j]), MeanOfValues(before)), std(before).v))
    /\ MeanOfValues(after) = Q(0, 1)
    /\ variance(after) = Some(Q(1, 1))

\* C23: standardize replaces every resolved numeric column that has two
\* distinct values at least by (x - mean) / std of that column, nulls left
\* null, so that the result has mean 0 and standard deviation 1; every
\* column that is not resolved is unchanged.
C23_Standardize ==
    (OpDone /\ opcall.op = "standardize") =>
        /\ opcall.res.ok
        /\ Columns(opcall.res.df) = Columns(opcall.df)
        /\ \A c \in 1..Len(opcall.df) :
              LET before == opcall.df[c]
                  after == opcall.res.df[c]
              IN /\ (before.name \in Range(opcall.columns) /\ Spread(before))
                        => ZScores(before, after)
                 /\ before.name \notin Range(opcall.columns) => after = before

\* a column with a null among 1, 3, 5 became -1, 0, 1 and the null
C23_Witness ==
    /\ OpDone
    /\ opcall.op = "standardize"
    /\ opcall.df = OpsSpread
    /\ opcall.columns = <<other>>
    /\ ColOf(opcall.res.df, other).vals = <<Fl(Q(-1, 1)), Null, Fl(Q(0, 1)), Fl(Q(1, 1))>>
    /\ ColOf(opcall.res.df, col_1) = ColOf(OpsSpread, col_1)


\* the three behaviours of replace on the resolved columns
Cells(df, name) == ColOf(df, name).vals
RegexSubstituted(df, out, columns, params) ==
    /\ SameSchema(df, out)
    /\ \A c \in 1..Len(df) : \A j \in 1..Height(df) :
          out[c].vals[j] =
              IF df[c].name \in Range(columns) /\ df[c].dtype = "Utf8"
                    /\ df[c].vals[j] # Null
              THEN S(ReplaceAll(params["pattern"], Get(params, "replacement", <<>>),
                                df[c].vals[j].s, 1))
              ELSE df[c].vals[j]
ValueSubstituted(df, out, columns, params) ==
    /\ SameSchema(df, out)
    /\ \A c \in 1..Len(df) : \A j \in 1..Height(df) :
          out[c].vals[j] =
              IF df[c].name \in Range(columns) /\ df[c].vals[j] = params["value"]
              THEN Get(params, "replacement", S(<<>>))
              ELSE df[c].vals[j]

\* C24: replace with resolved columns chooses its mode by the parameters
\* present (given and not None): with a value it substitutes the cells equal
\* to the value and nothing else, whether or not a pattern is given too;
\* with a pattern and no value it substitutes the matches of the pattern in
\* the string columns; with neither it returns the dataset unchanged.
C24_ReplaceModes ==
    (OpDone /\ opcall.op = "replace" /\ opcall.columns # <<>>) =>
        LET params == opcall.params
            value == "value" \in DOMAIN params /\ params["value"] # Null
            pattern == "pattern" \in DOMAIN params
        IN /\ opcall.res.ok
           /\ value => ValueSubstituted(opcall.df, opcall.res.df, opcall.columns, params)
           /\ (pattern /\ ~value)
                 => RegexSubstituted(opcall.df, opcall.res.df, opcall.columns, params)
           /\ (~pattern /\ ~value) => opcall.res.df = opcall.df

\* pattern and value both given: the cell "a" became "b", the digit of the
\* cell "1" stayed
C24_Witness ==
    /\ OpDone
    /\ opcall.op = "replace"
    /\ "pattern" \in DOMAIN opcall.params
    /\ "value" \in DOMAIN opcall.params
    /\ opcall.params["value"] # Null
    /\ opcall.df = OpsText
    /\ opcall.columns = <<col_1>>
    /\ Cells(opcall.res.df, col_1) = <<S(<<"b">>), S(<<"A", " ">>)>>


\* the rows of df, in row order, whose cell in the column named name
\* satisfies "operator value"; a null cell satisfies no comparison
RECURSIVE Satisfying(_, _, _, _, _)
Satisfying(df, name, operator, value, r) ==
    IF r > Height(df) THEN <<>>
    ELSE (IF Compare(operator, Cells(df, name)[r], value) THEN <<r>> ELSE <<>>)
             \o Satisfying(df, name, operator, value, r + 1)
Filtering ==
    /\ opcall.columns # <<>>
    /\ "value" \in DOMAIN opcall.params
    /\ opcall.params["value"] # Null
    /\ Get(opcall.params, "operator", "==") \in {"==", "!=", ">", ">=", "<", "<=", "in"}

\* C25: filter keeps exactly the rows whose cell in the first resolved
\* column satisfies "operator value" (operator == by default), in row
\* order and with every column; the other resolved columns change nothing;
\* with an operator outside ==, !=, >, >=, <, <=, in, or without a value,
\* it returns the dataset unchanged.
C25_FilterFirstColumn ==
    (OpDone /\ opcall.op = "filter") =>
        /\ opcall.res.ok
        /\ IF Filtering
           THEN LET rows == Satisfying(opcall.df, opcall.columns[1],
                                       Get(opcall.params, "operator", "=="),
                                       opcall.params["value"], 1)
                IN /\ SameSchema(opcall.df, opcall.res.df)
                   /\ Height(opcall.res.df) = Len(rows)
                   /\ \A k \in 1..Len(rows) :
                         Row(opcall.res.df, k) = Row(opcall.df, rows[k])
           ELSE opcall.res.df = opcall.df

\* two resolved columns: the rows with other < 3 were kept, whatever col_1
\* holds in them
C25_Witness ==
    /\ OpDone
    /\ opcall.op = "filter"
    /\ opcall.df = OpsSpread
    /\ opcall.columns = <<other, col_1>>
    /\ Get(opcall.params, "operator", "==") = "<"
    /\ Cells(opcall.res.df, other) = <<I(1)>>


\* out is made of rows of df, in the order they have in df
SubSequenceOfRows(df, out) ==
    \E X \in SUBSET (1..Height(df)) : out = TakeRows(df, Ascending(X))
\* the z-score method meets a column whose standard deviation is zero or
\* undefined
NoDeviation(col) == ~variance(col).some \/ variance(col).v.n = 0

\* C26: remove_outliers takes the resolved numeric columns one after the
\* other: its result for a column list is its result for the rest of the
\* list on the dataset the first column's pass left; the result is always
\* a sub-sequence of the rows of the input; and the z-score method removes
\* no row for a column whose standard deviation is zero or undefined.
C26_SequentialOutliers ==
    (OpDone /\ opcall.op = "remove_outliers" /\ opcall.columns # <<>>) =>
        LET first == remove_outliers(opcall.df, <<Head(opcall.columns)>>, opcall.params)
        IN /\ opcall.res.ok
           /\ SubSequenceOfRows(opcall.df, opcall.res.df)
           /\ first.ok
           /\ Len(opcall.columns) > 1 =>
                 opcall.res = remove_outliers(first.df, Tail(opcall.columns), opcall.params)
           /\ (/\ Len(opcall.columns) = 1
               /\ Get(opcall.params, "method", "iqr") = "zscore"
               /\ NoDeviation(ColOf(opcall.df, opcall.columns[1])))
                 => opcall.res.df = opcall.df

\* the same for the calls that return
C26_WhenReturning == opcall.res.ok => C26_SequentialOutliers

\* the pass over other removed the row of the 9, and the pass over col_1
\* then removed a row that is within the bounds of col_1 as it was
C26_SequentialCase ==
    /\ OpDone
    /\ opcall.op = "remove_outliers"
    /\ opcall.df = OpsOutliers
    /\ opcall.columns = <<other, col_1>>
    /\ Get(opcall.params, "method", "iqr") = "zscore"
    /\ Height(opcall.res.df) = 2
    /\ Height(remove_outliers(opcall.df, <<col_1>>, opcall.params).df) = 4


\* the call a step of the store made, read from the state after it
Called(ops) == scall'.pc = "done" /\ scall'.op \in ops

\* C27: in every sequence of connect(), close() and store operations,
\* close() raises nothing, leaves the store without a connection and
\* changes nothing on a store that has none; connect() leaves it with a
\* connection; a store operation leaves the connection as it is and
\* raises the not-connected error exactly when there is none, that is when
\* the last of the connect() and close() calls before it was not a
\* connect(); and the end of a with block leaves the store closed.
C27_Lifecycle ==
    [][/\ Called({"close", "__exit__"}) =>
            /\ scall'.res = Ok(<<>>)
            /\ ~store'.connected
            /\ ~store.connected => store' = store
       /\ Called({"connect", "__enter__"}) => store'.connected
       /\ Called(DataMethods) =>
            /\ store'.connected = store.connected
            /\ (scall'.res = Raise("NotConnected")) <=> ~store.connected]_vars

\* close() on a store that had no connection any more and holds a table
\* from an earlier one
C27_Witness ==
    /\ StoreDone
    /\ scall.op = "close"
    /\ ~scall.before.connected
    /\ scall.before.tables["t_in"].some
    /\ ~store.connected


(***************************************************************************)
(* Properties of clean_from_storage (Spec).                                *)
(***************************************************************************)
FromStorage == frame.op = "clean_from_storage" /\ frame.pc # "idle"
\* the step of the call that writes the output table
Saves ==
    /\ FromStorage
    /\ frame.pc = "save"
    /\ frame.out # ""
    /\ frame'.pc = "returned"
    /\ frame'.df = frame.df
    /\ store' = [store EXCEPT !.tables[frame.out] = Some(frame.df)]

\* C28: clean_from_storage without a store raises the storage-not-
\* configured error and loads nothing; otherwise it loads the table, cleans
\* what it loaded, and saves only when it was given an output table: the
\* store changes in no other step than the save, the save comes after
\* clean() returned the dataset clean() returns for the loaded table, a call
\* that raised left every table as it was, and after a call that returned
\* the output table holds the returned dataset.
C28_LoadCleanSave ==
    [][/\ store' # store => Saves
       /\ (FromStorage /\ ~store.present) =>
              /\ frame.pc = "raised"
              /\ frame.err = "StorageNotConfigured"
              /\ frame.input = <<>>
              /\ frame.trace = <<>>
       /\ (FromStorage /\ frame.pc \notin {"raised", "returned"}) =>
              frame.input = store.tables[frame.table].v
       /\ (FromStorage /\ frame.pc = "save") =>
              /\ frame.out # ""
              /\ Outcome2(RunAlone(Entered(frame), config.v))
                    = [pc |-> "returned", df |-> frame.df, err |-> "none"]
       /\ (FromStorage /\ frame.pc = "returned" /\ frame.out # "") =>
              store.tables[frame.out] = Some(frame.df)
       /\ (FromStorage /\ frame.pc = "raised" /\ frame'.pc = "idle") => store' = store]_vars

\* a call that loaded t_in, cleaned it to another dataset and saved that
\* as t_out
C28_Witness ==
    /\ FromStorage
    /\ frame.pc = "returned"
    /\ frame.table = "t_in"
    /\ frame.out = "t_out"
    /\ frame.df # frame.input
    /\ store.tables["t_out"] = Some(frame.df)
    /\ store.tables["t_in"] = Some(frame.input)


(***************************************************************************)
(* Properties of the registry as a whole (Spec).                           *)
(***************************************************************************)
\* C29: every member of the CleaningOperation enumeration has an entry in
\* the registry, so that with a configuration that was constructed no
\* clean() ends in the unknown-operation error.
C29_EveryOperationRegistered ==
    config.some =>
        /\ \A i \in 1..Len(config.v.rules) :
              /\ config.v.rules[i].operation \in CleaningOperation
              /\ config.v.rules[i].operation \in OPERATIONS
        /\ (InClean /\ frame.pc = "raised") => frame.err # "UnknownOperation"


(***************************************************************************)
(* The shape of what the registry operations return (SpecOps).             *)
(***************************************************************************)
\* selectors of each kind: all columns, a name list, a pattern
ShapeSelectors ==
    {DefaultSelector, Selector(Some(<<col_1, other>>), None, FALSE),
     Selector(Some(<<other>>), None, FALSE), Selector(None, Some(PatColDigits), FALSE)}

\* C30: no registry operation adds, removes, renames or reorders columns
\* and none adds rows: the dataset a call returns has the column names of
\* the dataset it was given, in the same order, and at most as many rows;
\* hence every selector resolves on it to the columns it resolves to on
\* the dataset given, as it does from one rule step of clean() to the next.
C30_ShapeKept ==
    (OpDone /\ opcall.res.ok) =>
        /\ Columns(opcall.res.df) = Columns(opcall.df)
        /\ \A c \in 1..Len(opcall.res.df) :
              Len(opcall.res.df[c].vals) = Height(opcall.res.df)
        /\ Height(opcall.res.df) <= Height(opcall.df)
        /\ \A s \in ShapeSelectors :
              select_columns(Columns(opcall.res.df), s) = select_columns(Columns(opcall.df), s)

\* a call that removed two of four rows, with both columns where they
\* were
C30_Witness ==
    /\ OpDone
    /\ opcall.res.ok
    /\ opcall.op = "remove_outliers"
    /\ opcall.df = OpsOutliers
    /\ Height(opcall.res.df) = 2
    /\ Columns(opcall.res.df) = <<other, col_1>>

=============================================================================
